---------------------------- MODULE Spec2Model ----------------------------
(***************************************************************************)
(* Stock valuation engine of coplacont-backend: the ledger tables (lots,   *)
(* movements, line items, exit allocations), the stock cache, the stock    *)
(* calculation service, FIFO consumption, and document registration with   *)
(* its transaction and correlative counter.                                *)
(*                                                                         *)
(* Quantities and costs are integers (the decimal columns scaled); a date  *)
(* is an integer timestamp and Ymd(t) is its calendar day.                 *)
(***************************************************************************)
EXTENDS Integers, Sequences, FiniteSets, TLC

VARIABLES
  lotes,         \* table inventario_lote (committed rows)
  movimientos,   \* table movimientos (committed rows)
  detalles,      \* table movimiento_detalle (committed rows)
  salidas,       \* table detalle_salida (committed rows)
  comprobantes,  \* table comprobante (committed rows)
  correlativos,  \* table correlativo (committed rows)
  loteCache,     \* StockCacheService entries keyed by lot id
  invCache,      \* StockCacheService entries keyed by inventory id
  regs,          \* the registrations in flight: position, transaction, inputs
  ret,           \* what the last finished call returned
  hist,          \* what was returned or written earlier (for the claims)
  lotesDisponiblesTemporales,  \* KardexCalculationService's working lot set
  gens           \* the Kardex generations in flight

vars == <<lotes, movimientos, detalles, salidas, comprobantes, correlativos,
          loteCache, invCache, regs, ret, hist, lotesDisponiblesTemporales,
          gens>>

kardexVars == <<lotesDisponiblesTemporales, gens>>

ledgerVars == <<lotes, movimientos, detalles, salidas>>

(***************************************************************************)
(* Bounds of the model.                                                    *)
(***************************************************************************)
MaxFecha == 2       \* timestamps are 0..MaxFecha
MaxCant == 3        \* quantities asked of the engine are 1..MaxCant
MaxMovs == 2        \* movements of an initial ledger of SpecStock

TicksPerDay == 2    \* timestamps per calendar day

NoFecha == -1       \* fechaHasta omitted

Fechas == 0..MaxFecha
FechaOpt == Fechas \cup {NoFecha}
InvIds == {1, 2}

Min(a, b) == IF a <= b THEN a ELSE b
Max(a, b) == IF a >= b THEN a ELSE b

\* new Date(y, m, d) of a timestamp: its calendar day
Ymd(t) == t \div TicksPerDay

RECURSIVE SumCantidad(_)
SumCantidad(S) ==
  IF S = {} THEN 0
  ELSE LET x == CHOOSE x \in S : TRUE
       IN x.cantidad + SumCantidad(S \ {x})

\* stockTotal += stockLote.cantidadActual
RECURSIVE SumActual(_)
SumActual(s) ==
  IF s = <<>> THEN 0 ELSE Head(s).cantidadActual + SumActual(Tail(s))

\* valorTotal += stockLote.cantidadActual * stockLote.costoUnitario
RECURSIVE SumValor(_)
SumValor(s) ==
  IF s = <<>> THEN 0
  ELSE Head(s).cantidadActual * Head(s).costoUnitario + SumValor(Tail(s))

Ledger == [lotes |-> lotes, movs |-> movimientos, dets |-> detalles,
           sals |-> salidas]

(***************************************************************************)
(* StockCalculationService.calcularStockLote                               *)
(***************************************************************************)
\* 'm.fecha <= :fechaHasta' or '1=1'
EnFecha(m, f) == f = NoFecha \/ m.fecha <= f

\* the join without the filter on estado
DetallesDeCualquierEstado(L, tipo, f) ==
  {d \in L.dets : \E m \in L.movs :
      m.id = d.idMovimiento /\ m.tipo = tipo /\ EnFecha(m, f)}

\* md INNER JOIN m WHERE m.estado = 'PROCESADO' AND m.tipo = :tipo AND (fecha)
DetallesDe(L, tipo, f) ==
  {d \in L.dets : \E m \in L.movs :
      /\ m.id = d.idMovimiento
      /\ m.estado = "PROCESADO"
      /\ m.tipo = tipo
      /\ EnFecha(m, f)}

Entradas(L, l, f) == SumCantidad({d \in DetallesDe(L, "ENTRADA", f) : d.idLote = l})

Ajustes(L, l, f) == SumCantidad({d \in DetallesDe(L, "AJUSTE", f) : d.idLote = l})

SalidasDeLote(L, l, f) ==
  SumCantidad({s \in L.sals :
      /\ s.idLote = l
      /\ \E d \in DetallesDe(L, "SALIDA", f) : d.id = s.idMovimientoDetalle})

\* the INV-INIT movement of the lot (PROCESADO, any type, any date)
InvInit(L, l) ==
  {m \in L.movs :
      /\ m.estado = "PROCESADO"
      /\ m.numeroDocumento = "INV-INIT"
      /\ \E d \in L.dets : d.idMovimiento = m.id /\ d.idLote = l}

\* the quantity of a lot without movements
CantidadVirgen(L, lote, f) ==
  IF f = NoFecha THEN lote.cantidadInicial
  ELSE IF InvInit(L, lote.id) # {}
       THEN LET m == CHOOSE m \in InvInit(L, lote.id) : TRUE
            IN IF Ymd(m.fecha) <= Ymd(f) THEN lote.cantidadInicial ELSE 0
       ELSE IF Ymd(lote.fechaIngreso) <= Ymd(f) THEN lote.cantidadInicial ELSE 0

\* cantidadActual before the floor at zero
CantidadCalculada(L, lote, f) ==
  LET entradas == Entradas(L, lote.id, f)
      salidasL == SalidasDeLote(L, lote.id, f)
      ajustes == Ajustes(L, lote.id, f)
      tieneMovimientos == entradas > 0 \/ salidasL > 0 \/ ajustes > 0
  IN IF tieneMovimientos THEN entradas - salidasL + ajustes
     ELSE CantidadVirgen(L, lote, f)

\* Math.max(0, cantidadActual)  -- "No permitir stock negativo"
SinPiso(c) == c
PisoCero(c) == Max(0, c)

\* the result computed from the ledger (a cache miss, or a dated query)
LoteCalc(L, lote, f) ==
  [idLote |-> lote.id,
   cantidadActual |-> PisoCero(CantidadCalculada(L, lote, f)),
   cantidadInicial |-> lote.cantidadInicial,
   costoUnitario |-> lote.costoUnitario,
   fechaIngreso |-> lote.fechaIngreso]

(***************************************************************************)
(* StockCacheService (stock-cache.service.ts): entries keyed by lot id or  *)
(* inventory id for the query without date; a dated result is not stored   *)
(* under that key.                                                         *)
(***************************************************************************)
getLoteStock(lc, l, f) ==
  IF f = NoFecha THEN {e \in lc : e.idLote = l} ELSE {}

setLoteStock(lc, l, f, r) ==
  IF f = NoFecha THEN {e \in lc : e.idLote # l} \cup {r} ELSE lc

getInventarioStock(ic, i, f) ==
  IF f = NoFecha THEN {e \in ic : e.idInventario = i} ELSE {}

setInventarioStock(ic, i, f, r) ==
  IF f = NoFecha THEN {e \in ic : e.idInventario # i} \cup {r} ELSE ic

invalidateInventario(ic, i) == {e \in ic : e.idInventario # i}

invalidateLote(lc, l) == {e \in lc : e.idLote # l}

\* calcularStockLote(idLote, fechaHasta) of an existing lot: its result
calcularStockLote(L, lc, lote, f) ==
  LET cachedResult == getLoteStock(lc, lote.id, f)
  IN IF cachedResult # {} /\ f = NoFecha
     THEN CHOOSE e \in cachedResult : TRUE
     ELSE LoteCalc(L, lote, f)

\* the lot cache after calcularStockLote(idLote, fechaHasta)
LoteCacheTrasLote(L, lc, lote, f) ==
  LET cachedResult == getLoteStock(lc, lote.id, f)
  IN IF cachedResult # {} /\ f = NoFecha THEN lc
     ELSE setLoteStock(lc, lote.id, f, LoteCalc(L, lote, f))

(***************************************************************************)
(* StockCalculationService.calcularStockInventario                         *)
(***************************************************************************)
LotesDe(L, i) == {l \in L.lotes : l.inv = i}

\* loteRepository.find({ where: inventario, order: { fechaIngreso: 'ASC' } }):
\* every row order the query may return (rows of equal fechaIngreso come in
\* an order the database chooses)
RECURSIVE OrdenesDe(_)
OrdenesDe(S) ==
  IF S = {} THEN {<<>>}
  ELSE UNION {{<<x>> \o o : o \in OrdenesDe(S \ {x})} :
                x \in {y \in S : \A z \in S : y.fechaIngreso <= z.fechaIngreso}}

OrdenesFind(L, i) == OrdenesDe(LotesDe(L, i))

\* the cache seen by the k-th call of calcularStockLote in the loop
RECURSIVE LoteCacheTrasLotes(_, _, _, _)
LoteCacheTrasLotes(L, lc, orden, f) ==
  IF orden = <<>> THEN lc
  ELSE LoteCacheTrasLotes(L, LoteCacheTrasLote(L, lc, Head(orden), f),
                          Tail(orden), f)

\* 'Ajuste por salidas registradas sin asignacion de lote (idLote=0)'
SalidasFicticias(L, i, f) ==
  SumCantidad({s \in L.sals :
      /\ s.idLote = 0
      /\ \E d \in DetallesDe(L, "SALIDA", f) :
            d.id = s.idMovimientoDetalle /\ d.idInventario = i})

\* Math.max(0, stockTotal - salidasFicticias)
SinAjusteFicticias(stockTotal, ficticias) == Max(0, stockTotal)
StockAjustado(stockTotal, ficticias) == Max(0, stockTotal - ficticias)

\* the result of a cache miss (or a dated query), the lots read in `orden`
InventarioCalc(L, lc, i, f, orden) ==
  LET stocks == [k \in 1..Len(orden) |-> calcularStockLote(L, lc, orden[k], f)]
      lotesConStock == SelectSeq(stocks, LAMBDA r : r.cantidadActual > 0)
      stockTotal == SumActual(lotesConStock)
      valorTotal == SumValor(lotesConStock)
      stockTotalAjustado == StockAjustado(stockTotal, SalidasFicticias(L, i, f))
  IN [idInventario |-> i,
      stockActual |-> stockTotalAjustado,
      \* costoPromedioActual = valorTotal / stockTotalAjustado, as a fraction
      costoNum |-> IF stockTotalAjustado > 0 THEN valorTotal ELSE 0,
      costoDen |-> IF stockTotalAjustado > 0 THEN stockTotalAjustado ELSE 1,
      lotes |-> lotesConStock]

\* what setInventarioStock stores ('solo los datos basicos')
EntradaInv(r) ==
  [idInventario |-> r.idInventario, stockActual |-> r.stockActual,
   costoNum |-> r.costoNum, costoDen |-> r.costoDen]

calcularStockInventario(L, lc, ic, i, f, orden) ==
  LET cachedResult == getInventarioStock(ic, i, f)
  IN IF cachedResult # {} /\ f = NoFecha
     THEN LET c == CHOOSE e \in cachedResult : TRUE
          IN [idInventario |-> i, stockActual |-> c.stockActual,
              costoNum |-> c.costoNum, costoDen |-> c.costoDen,
              lotes |-> <<>>]
     ELSE InventarioCalc(L, lc, i, f, orden)

\* the caches after calcularStockInventario(idInventario, fechaHasta)
LoteCacheTrasInv(L, lc, ic, i, f, orden) ==
  IF getInventarioStock(ic, i, f) # {} /\ f = NoFecha THEN lc
  ELSE LoteCacheTrasLotes(L, lc, orden, f)

InvCacheTrasInv(L, lc, ic, i, f, orden) ==
  IF getInventarioStock(ic, i, f) # {} /\ f = NoFecha THEN ic
  ELSE setInventarioStock(ic, i, f, EntradaInv(InventarioCalc(L, lc, i, f, orden)))

(***************************************************************************)
(* StockCalculationService.obtenerLotesDisponiblesFIFO, calcularConsumoFIFO *)
(***************************************************************************)
\* Array.prototype.sort((a, b) => a.fechaIngreso - b.fechaIngreso): stable
RECURSIVE InsertarPorFecha(_, _)
InsertarPorFecha(x, s) ==
  IF s = <<>> THEN <<x>>
  ELSE IF x.fechaIngreso < Head(s).fechaIngreso THEN <<x>> \o s
       ELSE <<Head(s)>> \o InsertarPorFecha(x, Tail(s))

RECURSIVE SortPorFecha(_)
SortPorFecha(s) ==
  IF s = <<>> THEN <<>>
  ELSE InsertarPorFecha(s[Len(s)], SortPorFecha(SubSeq(s, 1, Len(s) - 1)))

obtenerLotesDisponiblesFIFO(stockInventario) ==
  LET conStock == SelectSeq(stockInventario.lotes,
                            LAMBDA r : r.cantidadActual > 0)
      disponibles == [k \in 1..Len(conStock) |->
                        [idLote |-> conStock[k].idLote,
                         cantidadDisponible |-> conStock[k].cantidadActual,
                         costoUnitario |-> conStock[k].costoUnitario,
                         fechaIngreso |-> conStock[k].fechaIngreso]]
  IN SortPorFecha(disponibles)

\* Math.min(cantidadRestante, lote.cantidadDisponible)
LoteEntero(cantidadRestante, cantidadDisponible) == cantidadDisponible
CantidadDelLote(cantidadRestante, cantidadDisponible) ==
  Min(cantidadRestante, cantidadDisponible)

\* the loop of calcularConsumoFIFO: the consumption and cantidadRestante
RECURSIVE Consumir(_, _)
Consumir(disponibles, cantidadRestante) ==
  IF disponibles = <<>> \/ cantidadRestante <= 0
  THEN [consumo |-> <<>>, restante |-> cantidadRestante]
  ELSE LET lote == Head(disponibles)
           cantidadDelLote == CantidadDelLote(cantidadRestante,
                                              lote.cantidadDisponible)
           r == Consumir(Tail(disponibles), cantidadRestante - cantidadDelLote)
       IN [consumo |-> <<[idLote |-> lote.idLote,
                          cantidad |-> cantidadDelLote,
                          costoUnitario |-> lote.costoUnitario]>> \o r.consumo,
           restante |-> r.restante]

\* ok = FALSE: throw new Error('Stock insuficiente. Faltante: ...')
ConsumoSinFallo(disponibles, cantidadAConsumir) ==
  [ok |-> TRUE, consumo |-> Consumir(disponibles, cantidadAConsumir).consumo]

calcularConsumoFIFO(disponibles, cantidadAConsumir) ==
  LET r == Consumir(disponibles, cantidadAConsumir)
  IN IF r.restante > 0
     THEN [ok |-> FALSE, consumo |-> <<>>]
     ELSE [ok |-> TRUE, consumo |-> r.consumo]

\* the sale cost that ignores metodoValoracion
CostoSiemprePromedio(stockInventario, cantidadVenta, metodoValoracion) ==
  [ok |-> TRUE, costoNum |-> stockInventario.costoNum,
   costoDen |-> stockInventario.costoDen]

\* calcularCostoUnitarioVenta(idInventario, cantidadVenta, metodoValoracion,
\* fechaHasta) over the stock it reads: the cost as a fraction, or the throw
\* of calcularConsumoFIFO (ok = FALSE)
calcularCostoUnitarioVenta(stockInventario, cantidadVenta, metodoValoracion) ==
  IF metodoValoracion = "PROMEDIO"
  THEN [ok |-> TRUE, costoNum |-> stockInventario.costoNum,
        costoDen |-> stockInventario.costoDen]
  ELSE LET c == calcularConsumoFIFO(obtenerLotesDisponiblesFIFO(stockInventario),
                                    cantidadVenta)
           costoTotal == SumValor([k \in 1..Len(c.consumo) |->
                           [cantidadActual |-> c.consumo[k].cantidad,
                            costoUnitario |-> c.consumo[k].costoUnitario]])
           cantidadTotal == SumActual([k \in 1..Len(c.consumo) |->
                              [cantidadActual |-> c.consumo[k].cantidad]])
       IN [ok |-> c.ok,
           costoNum |-> IF cantidadTotal > 0 THEN costoTotal ELSE 0,
           costoDen |-> IF cantidadTotal > 0 THEN cantidadTotal ELSE 1]

(***************************************************************************)
(* Stock reads over a ledger: the initial ledgers of SpecStock.            *)
(* Two lots of inventory 1 (lot 1 the seed lot, lot 2 a later, equal-dated  *)
(* or earlier lot) and up to MaxMovs movements drawn from Plantillas: each *)
(* a movement with one line item and its exit allocations.                 *)
(***************************************************************************)
LotesIniciales ==
  {{[id |-> 1, inv |-> 1, cantidadInicial |-> 3, costoUnitario |-> 5,
     fechaIngreso |-> 1],
    [id |-> 2, inv |-> 1, cantidadInicial |-> cf[1], costoUnitario |-> 8,
     fechaIngreso |-> cf[2]]} : cf \in {<<0, 1>>, <<2, 0>>, <<2, 1>>}}

Mov(tipo, fecha, estado, doc, inv, cantidad, lote, sal) ==
  [tipo |-> tipo, fecha |-> fecha, estado |-> estado, doc |-> doc,
   inv |-> inv, cantidad |-> cantidad, lote |-> lote, sal |-> sal]

Asig(lote, cantidad) == [idLote |-> lote, cantidad |-> cantidad]

Plantillas ==
  << Mov("ENTRADA", 2, "PROCESADO", "INV-INIT", 1, 3, 1, {}),
     Mov("ENTRADA", 1, "PROCESADO", "DOC", 1, 2, 2, {}),
     Mov("ENTRADA", 0, "PENDIENTE", "DOC", 1, 4, 1, {}),
     Mov("SALIDA", 2, "PROCESADO", "DOC", 1, 2, 0, {Asig(1, 2)}),
     Mov("SALIDA", 2, "PROCESADO", "DOC", 1, 4, 0, {Asig(1, 1), Asig(2, 3)}),
     Mov("SALIDA", 1, "PROCESADO", "DOC", 1, 1, 0, {Asig(0, 1)}),
     Mov("SALIDA", 1, "PROCESADO", "DOC", 2, 2, 0, {Asig(0, 2)}),
     Mov("AJUSTE", 2, "PROCESADO", "DOC", 1, -1, 1, {}),
     Mov("AJUSTE", 1, "PROCESADO", "DOC", 1, 1, 2, {}),
     Mov("SALIDA", 2, "PROCESADO", "DOC", 1, 1, 0, {Asig(2, 1)}),
     Mov("ENTRADA", 2, "PROCESADO", "DOC", 1, 1, 0, {}) >>

MovimientosDe(I) ==
  {[id |-> k, tipo |-> Plantillas[k].tipo, fecha |-> Plantillas[k].fecha,
    estado |-> Plantillas[k].estado, numeroDocumento |-> Plantillas[k].doc,
    idComprobante |-> 0] : k \in I}

DetallesDeMovs(I) ==
  {[id |-> k, idMovimiento |-> k, idInventario |-> Plantillas[k].inv,
    cantidad |-> Plantillas[k].cantidad, idLote |-> Plantillas[k].lote] : k \in I}

SalidasDeMovs(I) ==
  UNION {{[idMovimientoDetalle |-> k, idLote |-> a.idLote,
           cantidad |-> a.cantidad,
           costoUnitarioDeLote |-> IF a.idLote = 1 THEN 5 ELSE 8] :
            a \in Plantillas[k].sal} : k \in I}

RegsInit == <<>>
HistInit ==
  [iniciados |-> 0,      \* registrations started
   invLeidos |-> {},     \* positions whose stock was read without fechaHasta
   invEscritos |-> {},   \* positions written by a committed registration
   invReleidos |-> {},   \* ... that had been read before it
   lotesReleidos |-> {}, \* the lots such a registration touched
   inventarios |-> {}]   \* positions created by InventarioService.create

InitStock ==
  /\ lotes \in LotesIniciales
  /\ \E I \in SUBSET (1..Len(Plantillas)) :
        /\ Cardinality(I) <= MaxMovs
        /\ movimientos = MovimientosDe(I)
        /\ detalles = DetallesDeMovs(I)
        /\ salidas = SalidasDeMovs(I)
  /\ comprobantes = {}
  /\ correlativos = {}
  /\ loteCache = {}
  /\ invCache = {}
  /\ regs = RegsInit
  /\ ret = [op |-> "init"]
  /\ hist = HistInit
  /\ lotesDisponiblesTemporales = {}
  /\ gens = <<>>

noStock == <<comprobantes, correlativos, regs, hist, kardexVars>>

\* calcularStockLote(idLote, fechaHasta)
LeerLote(lote, f) ==
  /\ ret' = [op |-> "lote", id |-> lote.id, fecha |-> f,
             out |-> calcularStockLote(Ledger, loteCache, lote, f)]
  /\ loteCache' = LoteCacheTrasLote(Ledger, loteCache, lote, f)
  /\ UNCHANGED <<ledgerVars, invCache, noStock>>

\* calcularStockInventario(idInventario, fechaHasta)
LeerInventario(i, f, orden) ==
  /\ ret' = [op |-> "inventario", id |-> i, fecha |-> f,
             out |-> calcularStockInventario(Ledger, loteCache, invCache, i, f, orden)]
  /\ loteCache' = LoteCacheTrasInv(Ledger, loteCache, invCache, i, f, orden)
  /\ invCache' = InvCacheTrasInv(Ledger, loteCache, invCache, i, f, orden)
  /\ hist' = [hist EXCEPT !.invLeidos = IF f = NoFecha THEN @ \cup {i} ELSE @]
  /\ UNCHANGED <<kardexVars, ledgerVars, comprobantes, correlativos, regs>>

\* obtenerLotesDisponiblesFIFO(idInventario, fechaHasta)
LeerLotesFIFO(i, f, orden) ==
  /\ ret' = [op |-> "lotesFIFO", id |-> i, fecha |-> f,
             out |-> obtenerLotesDisponiblesFIFO(
                       calcularStockInventario(Ledger, loteCache, invCache, i, f, orden))]
  /\ loteCache' = LoteCacheTrasInv(Ledger, loteCache, invCache, i, f, orden)
  /\ invCache' = InvCacheTrasInv(Ledger, loteCache, invCache, i, f, orden)
  /\ UNCHANGED <<ledgerVars, noStock>>

\* calcularConsumoFIFO(idInventario, cantidadAConsumir, fechaHasta)
LeerConsumoFIFO(i, cant, f, orden) ==
  /\ ret' = [op |-> "consumoFIFO", id |-> i, fecha |-> f, cant |-> cant,
             out |-> calcularConsumoFIFO(
                       obtenerLotesDisponiblesFIFO(
                         calcularStockInventario(Ledger, loteCache, invCache, i, f, orden)),
                       cant)]
  /\ loteCache' = LoteCacheTrasInv(Ledger, loteCache, invCache, i, f, orden)
  /\ invCache' = InvCacheTrasInv(Ledger, loteCache, invCache, i, f, orden)
  /\ UNCHANGED <<ledgerVars, noStock>>

\* calcularCostoUnitarioVenta(idInventario, cantidadVenta, metodoValoracion,
\* fechaHasta)
LeerCostoVenta(i, cant, metodo, f, orden) ==
  /\ ret' = [op |-> "costoVenta", id |-> i, fecha |-> f, cant |-> cant,
             metodo |-> metodo,
             out |-> calcularCostoUnitarioVenta(
                       calcularStockInventario(Ledger, loteCache, invCache, i, f, orden),
                       cant, metodo)]
  /\ loteCache' = LoteCacheTrasInv(Ledger, loteCache, invCache, i, f, orden)
  /\ invCache' = InvCacheTrasInv(Ledger, loteCache, invCache, i, f, orden)
  /\ UNCHANGED <<ledgerVars, noStock>>

\* the inventory positions that own lots
Posiciones == {l.inv : l \in lotes}

NextStock ==
  \/ \E lote \in lotes, f \in FechaOpt : LeerLote(lote, f)
  \/ \E i \in Posiciones, f \in FechaOpt : \E orden \in OrdenesFind(Ledger, i) :
        LeerInventario(i, f, orden)
  \/ \E i \in Posiciones, f \in FechaOpt : \E orden \in OrdenesFind(Ledger, i) :
        LeerLotesFIFO(i, f, orden)
  \/ \E i \in Posiciones, cant \in 1..MaxCant, f \in FechaOpt :
        \E orden \in OrdenesFind(Ledger, i) : LeerConsumoFIFO(i, cant, f, orden)
  \/ \E i \in Posiciones, cant \in 1..MaxCant, f \in FechaOpt :
        \E metodo \in {"PROMEDIO", "FIFO"}, orden \in OrdenesFind(Ledger, i) :
           LeerCostoVenta(i, cant, metodo, f, orden)

SpecStock == InitStock /\ [][NextStock]_vars

(***************************************************************************)
(* Document registration: ComprobanteService.register, one step per        *)
(* database round trip group.  A registration writes through its           *)
(* queryRunner.manager into its transaction (tx, invisible to the others   *)
(* until commit) and, where the code uses an injected repository, straight *)
(* into the committed tables.                                              *)
(***************************************************************************)
MaxProcs == 2       \* concurrent requests
MaxDocs == 2        \* registrations started in a behaviour

Procs == 1..MaxProcs

Linea(inv, cantidad, precio) ==
  [inv |-> inv, cantidad |-> cantidad, precioUnitario |-> precio]

\* the payloads: purchases (tipoOperacion.codigo '02') of one or two lines,
\* on one position or two, some with a quantity of 0 or a negative price,
\* sales ('01') under either valuation method, of a quantity in stock, of
\* more than any position of Init holds, and of two lines
Documentos ==
  {[tipo |-> "COMPRA", metodo |-> "PROMEDIO", fecha |-> 1, lineas |-> ls] :
      ls \in {<<Linea(1, 2, 5)>>, <<Linea(1, 2, 5), Linea(1, 1, 8)>>,
              <<Linea(1, 2, 5), Linea(2, 1, 8)>>, <<Linea(1, 0, 5)>>,
              <<Linea(1, 2, 5), Linea(1, 1, -1)>>}}
  \cup
  {[tipo |-> "VENTA", metodo |-> m, fecha |-> 2, lineas |-> <<Linea(1, c, 0)>>] :
      m \in {"PROMEDIO", "FIFO"}, c \in {2, MaxCant + 1}}
  \cup
  {[tipo |-> "VENTA", metodo |-> "PROMEDIO", fecha |-> 2,
    lineas |-> <<Linea(1, 1, 0), Linea(2, 1, 0)>>]}

NoDoc == [tipo |-> "", metodo |-> "", fecha |-> NoFecha, lineas |-> <<>>]

\* a row of the table correlativo (entities/correlativo): the counter of a
\* tenant and operation type; the table accepts a second row of a key
Correlativo(id, tipo, ultimoNumero) ==
  [id |-> id, tipo |-> tipo, ultimoNumero |-> ultimoNumero]

TxVacia == [corr |-> {}, comps |-> {}, movs |-> {}, dets |-> {}, sals |-> {}]

IdleReg ==
  [pc |-> "idle", doc |-> NoDoc, lock |-> FALSE, corr |-> 0, numero |-> 0,
   idComprobante |-> 0, k |-> 1, lotesUsados |-> <<>>, error |-> "",
   tx |-> TxVacia]

\* an auto-increment primary key: one more than the largest id in use
NuevoId(ids) == IF ids = {} THEN 1 ELSE (CHOOSE x \in ids : \A y \in ids : y <= x) + 1

IdsComprobante ==
  {c.id : c \in comprobantes} \cup {regs[q].idComprobante : q \in DOMAIN regs}

IdsCorrelativo ==
  {c.id : c \in correlativos}
    \cup UNION {{c.id : c \in regs[q].tx.corr} : q \in DOMAIN regs}

IdsMovimiento ==
  {m.id : m \in movimientos}
    \cup UNION {{m.id : m \in regs[q].tx.movs} : q \in DOMAIN regs}

IdsDetalle ==
  {d.id : d \in detalles}
    \cup UNION {{d.id : d \in regs[q].tx.dets} : q \in DOMAIN regs}

\* queryRunner.startTransaction() and the lookups before the correlativo
StartTransaction(p, doc) ==
  /\ regs[p].pc = "idle"
  /\ hist.iniciados < MaxDocs
  /\ regs' = [regs EXCEPT ![p] = [IdleReg EXCEPT !.pc = "correlativo", !.doc = doc]]
  /\ hist' = [hist EXCEPT !.iniciados = @ + 1]
  /\ UNCHANGED <<kardexVars, ledgerVars, comprobantes, correlativos, loteCache, invCache, ret>>

\* findOrCreateCorrelativo(idTipoOperacion, personaId, queryRunner.manager):
\* SELECT ... FOR UPDATE of the committed rows of the key (it waits while
\* another transaction holds them, and locks nothing when there is none),
\* else an INSERT of a row with ultimoNumero 0 inside the transaction
FindOrCreateCorrelativo(p) ==
  LET r == regs[p]
      filas == {c \in correlativos : c.tipo = r.doc.tipo}
  IN /\ r.pc = "correlativo"
     /\ IF filas # {}
        THEN /\ \A q \in DOMAIN regs \ {p} :
                  ~(regs[q].lock /\ regs[q].doc.tipo = r.doc.tipo)
             /\ \E c \in filas :
                  regs' = [regs EXCEPT ![p] =
                             [r EXCEPT !.pc = "comprobante", !.lock = TRUE,
                                       !.corr = c.id, !.numero = c.ultimoNumero]]
        ELSE LET id == NuevoId(IdsCorrelativo)
             IN regs' = [regs EXCEPT ![p] =
                           [r EXCEPT !.pc = "comprobante", !.corr = id,
                                     !.numero = 0,
                                     !.tx.corr = {Correlativo(id, r.doc.tipo, 0)}]]
     /\ UNCHANGED <<kardexVars, ledgerVars, comprobantes, correlativos, loteCache, invCache,
                    ret, hist>>

\* correlativo.ultimoNumero += 1; manager.save(correlativo);
\* comprobante.correlativo = `CORR-${ultimoNumero}`; manager.save(comprobante)
SaveComprobante(p) ==
  LET r == regs[p]
      id == NuevoId(IdsComprobante)
  IN /\ r.pc = "comprobante"
     /\ regs' = [regs EXCEPT ![p] =
                   [r EXCEPT !.pc = "lotes", !.numero = r.numero + 1,
                             !.idComprobante = id,
                             !.tx.corr = {Correlativo(r.corr, r.doc.tipo,
                                                      r.numero + 1)},
                             !.tx.comps = {[id |-> id, tipo |-> r.doc.tipo,
                                            fechaEmision |-> r.doc.fecha,
                                            correlativo |-> r.numero + 1]}]]
     /\ UNCHANGED <<kardexVars, ledgerVars, comprobantes, correlativos, loteCache, invCache,
                    ret, hist>>

\* detalles[i] of the loop of procesarLotesComprobante
LineaActual(p) ==
  IF regs[p].k <= Len(regs[p].doc.lineas)
  THEN regs[p].doc.lineas[regs[p].k] ELSE Linea(0, 0, 0)

\* registrarLoteCompra(detalle, fechaEmision): the row saved through the
\* injected loteRepository (its own connection, committed at once)
LoteCompra(id, linea, fechaEmision) ==
  [id |-> id, inv |-> linea.inv, cantidadInicial |-> 0,
   costoUnitario |-> linea.precioUnitario, fechaIngreso |-> fechaEmision]

\* the line that registrarLoteCompra turns into a lot whatever it holds
LineaSinValidar(linea) == TRUE

\* if (cantidad <= 0) throw ...; if (precioUnitario < 0) throw ...
LineaDeCompraValida(linea) == linea.cantidad > 0 /\ linea.precioUnitario >= 0

\* one turn of the loop of procesarLotesComprobante, for a purchase line
ProcesarLineaCompra(p) ==
  LET r == regs[p]
      linea == LineaActual(p)
      id == NuevoId({l.id : l \in lotes})
  IN /\ r.pc = "lotes"
     /\ r.doc.tipo = "COMPRA"
     /\ r.k <= Len(r.doc.lineas)
     /\ IF LineaDeCompraValida(linea)
        THEN /\ lotes' = lotes \cup {LoteCompra(id, linea, r.doc.fecha)}
             /\ invCache' = invalidateInventario(invCache, linea.inv)
             /\ regs' = [regs EXCEPT ![p] =
                   [r EXCEPT !.k = r.k + 1,
                             !.lotesUsados = Append(@,
                                [idLote |-> id,
                                 costoUnitarioDeLote |-> linea.precioUnitario,
                                 cantidad |-> linea.cantidad])]]
        ELSE /\ regs' = [regs EXCEPT ![p] =
                   [r EXCEPT !.pc = "rollback",
                             !.error = IF linea.cantidad <= 0
                                       THEN "La cantidad debe ser mayor a 0"
                                       ELSE "El precio unitario no puede ser negativo"]]
             /\ UNCHANGED <<lotes, invCache>>
     /\ UNCHANGED <<kardexVars, movimientos, detalles, salidas, comprobantes, correlativos,
                    loteCache, ret, hist>>

\* one turn of the loop of procesarLotesComprobante, for any other line:
\* calcularCostoUnitarioVenta, calcularConsumoFIFO (both as of fechaEmision,
\* read from the committed tables), invalidateInventario
ProcesarLineaVenta(p, orden) ==
  LET r == regs[p]
      linea == LineaActual(p)
      stockInventario == calcularStockInventario(Ledger, loteCache, invCache,
                                                 linea.inv, r.doc.fecha, orden)
      costo == calcularCostoUnitarioVenta(stockInventario, linea.cantidad,
                                          r.doc.metodo)
      consumoFIFO == calcularConsumoFIFO(
                       obtenerLotesDisponiblesFIFO(stockInventario),
                       linea.cantidad)
  IN /\ r.pc = "lotes"
     /\ r.doc.tipo # "COMPRA"
     /\ r.k <= Len(r.doc.lineas)
     /\ IF costo.ok /\ consumoFIFO.ok
        THEN /\ regs' = [regs EXCEPT ![p] =
                   [r EXCEPT !.k = r.k + 1,
                             !.lotesUsados = @ \o
                                [j \in 1..Len(consumoFIFO.consumo) |->
                                   [idLote |-> consumoFIFO.consumo[j].idLote,
                                    costoUnitarioDeLote |->
                                      consumoFIFO.consumo[j].costoUnitario,
                                    cantidad |-> consumoFIFO.consumo[j].cantidad]]]]
             /\ invCache' = invalidateInventario(invCache, linea.inv)
        ELSE /\ regs' = [regs EXCEPT ![p] =
                   [r EXCEPT !.pc = "rollback", !.error = "Stock insuficiente"]]
             /\ UNCHANGED invCache
     /\ UNCHANGED <<kardexVars, ledgerVars, comprobantes, correlativos, loteCache, ret, hist>>

\* procesarLotesComprobante returns { costoUnitario, lotes }
FinProcesarLotes(p) ==
  LET r == regs[p]
  IN /\ r.pc = "lotes"
     /\ r.k > Len(r.doc.lineas)
     /\ regs' = [regs EXCEPT ![p] =
                   [r EXCEPT !.pc = IF r.doc.tipo = "COMPRA" THEN "validar"
                                    ELSE "movimiento"]]
     /\ UNCHANGED <<kardexVars, ledgerVars, comprobantes, correlativos, loteCache, invCache,
                    ret, hist>>

\* validarLotesCompra(detalles): for every line the lot of the line's
\* position with the largest id has cantidadInicial 0 or the line's quantity,
\* and the line's unit price as its cost
validarLotesCompra(L, lineas) ==
  \A k \in 1..Len(lineas) :
    LET delInv == LotesDe(L, lineas[k].inv)
    IN /\ delInv # {}
       /\ LET loteReciente == CHOOSE l \in delInv : \A m \in delInv : m.id <= l.id
          IN /\ (loteReciente.cantidadInicial = lineas[k].cantidad
                   \/ loteReciente.cantidadInicial = 0)
             /\ loteReciente.costoUnitario = lineas[k].precioUnitario

\* if (tipoOperacion.codigo === '02') { validarLotesCompra ... throw }
ValidarLotesCompra(p) ==
  LET r == regs[p]
  IN /\ r.pc = "validar"
     /\ regs' = [regs EXCEPT ![p] =
                   IF validarLotesCompra(Ledger, r.doc.lineas)
                   THEN [r EXCEPT !.pc = "movimiento"]
                   ELSE [r EXCEPT !.pc = "rollback",
                                  !.error = "Error al crear los lotes"]]
     /\ UNCHANGED <<kardexVars, ledgerVars, comprobantes, correlativos, loteCache, invCache,
                    ret, hist>>

(***************************************************************************)
(* MovimientoFactory.createMovimientoFromComprobante and                   *)
(* MovimientosRepository.createWithManager                                 *)
(***************************************************************************)
\* the while loop over precioYcantidadPorLote for one sale line: the exit
\* allocations of the line, the list (its quantities decremented) and
\* indiceLote afterwards (1-based)
RECURSIVE TomarLotes(_, _, _)
TomarLotes(cantidadRestante, lista, indiceLote) ==
  IF cantidadRestante > 0 /\ indiceLote <= Len(lista)
  THEN LET lote == lista[indiceLote]
           cantidadAUsar == Min(cantidadRestante, lote.cantidad)
           r == IF cantidadAUsar = lote.cantidad
                THEN TomarLotes(cantidadRestante - cantidadAUsar, lista,
                                indiceLote + 1)
                ELSE TomarLotes(cantidadRestante - cantidadAUsar,
                                [lista EXCEPT ![indiceLote].cantidad =
                                   @ - cantidadAUsar],
                                indiceLote)
       IN [sal |-> <<[idLote |-> lote.idLote,
                      costoUnitarioDeLote |-> lote.costoUnitarioDeLote,
                      cantidad |-> cantidadAUsar]>> \o r.sal,
           lista |-> r.lista, indiceLote |-> r.indiceLote]
  ELSE [sal |-> <<>>, lista |-> lista, indiceLote |-> indiceLote]

\* createMovimientosDetallesFromDetallesComprobante: per line the dto
\* { idInventario, cantidad, idLote?, detallesSalida? } (idLote 0: not set)
RECURSIVE DetallesFactory(_, _, _, _)
DetallesFactory(lineas, esEntrada, lista, indiceLote) ==
  IF lineas = <<>> THEN <<>>
  ELSE LET detalle == Head(lineas)
       IN IF esEntrada
          THEN <<[idInventario |-> detalle.inv, cantidad |-> detalle.cantidad,
                  idLote |-> IF indiceLote <= Len(lista)
                             THEN lista[indiceLote].idLote ELSE 0,
                  detallesSalida |-> <<>>]>>
               \o DetallesFactory(Tail(lineas), esEntrada, lista,
                                  IF indiceLote <= Len(lista)
                                  THEN indiceLote + 1 ELSE indiceLote)
          ELSE LET t == TomarLotes(detalle.cantidad, lista, indiceLote)
               IN <<[idInventario |-> detalle.inv, cantidad |-> detalle.cantidad,
                     idLote |-> 0, detallesSalida |-> t.sal]>>
                  \o DetallesFactory(Tail(lineas), esEntrada, t.lista,
                                     t.indiceLote)

\* movementDate: the calendar day of fechaEmision at the time of day of now
FechaMovimiento(fechaEmision, ahora) ==
  Ymd(fechaEmision) * TicksPerDay + (ahora % TicksPerDay)

\* createMovimientoFromComprobante(comprobante, costosUnitarios,
\* precioYcantidadPorLote): the dto of the movement of a document
createMovimientoFromComprobante(doc, idComprobante, lotesUsados, ahora) ==
  LET esEntrada == doc.tipo = "COMPRA"
  IN [tipo |-> IF esEntrada THEN "ENTRADA" ELSE "SALIDA",
      fecha |-> FechaMovimiento(doc.fecha, ahora),
      estado |-> "PROCESADO",
      numeroDocumento |-> "DOC",
      idComprobante |-> idComprobante,
      detalles |-> DetallesFactory(doc.lineas, esEntrada, lotesUsados, 1)]

\* the rows saved when only the first detalleSalida of a line item is kept
createSoloPrimeraSalida(idMov, idDet0, dto) ==
  [movs |-> {[id |-> idMov, tipo |-> dto.tipo, fecha |-> dto.fecha,
              estado |-> dto.estado, numeroDocumento |-> dto.numeroDocumento,
              idComprobante |-> dto.idComprobante]},
   dets |-> {[id |-> idDet0 + k - 1, idMovimiento |-> idMov,
              idInventario |-> dto.detalles[k].idInventario,
              cantidad |-> dto.detalles[k].cantidad,
              idLote |-> dto.detalles[k].idLote] : k \in 1..Len(dto.detalles)},
   sals |-> UNION {{[idMovimientoDetalle |-> idDet0 + k - 1,
                     idLote |-> dto.detalles[k].detallesSalida[j].idLote,
                     cantidad |-> dto.detalles[k].detallesSalida[j].cantidad,
                     costoUnitarioDeLote |->
                       dto.detalles[k].detallesSalida[j].costoUnitarioDeLote] :
                      j \in 1..Min(1, Len(dto.detalles[k].detallesSalida))} :
                   k \in 1..Len(dto.detalles)}]

\* createWithManager(createMovimientoDto, manager): the rows it saves
createWithManager(idMov, idDet0, dto) ==
  [movs |-> {[id |-> idMov, tipo |-> dto.tipo, fecha |-> dto.fecha,
              estado |-> dto.estado, numeroDocumento |-> dto.numeroDocumento,
              idComprobante |-> dto.idComprobante]},
   dets |-> {[id |-> idDet0 + k - 1, idMovimiento |-> idMov,
              idInventario |-> dto.detalles[k].idInventario,
              cantidad |-> dto.detalles[k].cantidad,
              idLote |-> dto.detalles[k].idLote] : k \in 1..Len(dto.detalles)},
   sals |-> UNION {{[idMovimientoDetalle |-> idDet0 + k - 1,
                     idLote |-> dto.detalles[k].detallesSalida[j].idLote,
                     cantidad |-> dto.detalles[k].detallesSalida[j].cantidad,
                     costoUnitarioDeLote |->
                       dto.detalles[k].detallesSalida[j].costoUnitarioDeLote] :
                      j \in 1..Len(dto.detalles[k].detallesSalida)} :
                   k \in 1..Len(dto.detalles)}]

\* movimientoFactory.createMovimientoFromComprobante(...) and
\* movimientoService.createWithManager(movimientoDto, queryRunner.manager)
CreateWithManager(p, ahora) ==
  LET r == regs[p]
      dto == createMovimientoFromComprobante(r.doc, r.idComprobante,
                                             r.lotesUsados, ahora)
      filas == createWithManager(NuevoId(IdsMovimiento), NuevoId(IdsDetalle), dto)
  IN /\ r.pc = "movimiento"
     /\ regs' = [regs EXCEPT ![p] =
                   [r EXCEPT !.pc = "commit", !.tx.movs = filas.movs,
                             !.tx.dets = filas.dets, !.tx.sals = filas.sals]]
     /\ UNCHANGED <<kardexVars, ledgerVars, comprobantes, correlativos, loteCache, invCache,
                    ret, hist>>

\* a table after the commit of a transaction that wrote `filas` (by id)
TrasCommit(tabla, filas) ==
  {x \in tabla : \A y \in filas : y.id # x.id} \cup filas

\* queryRunner.commitTransaction(): the rows of the transaction become
\* visible, its lock is released, the response is returned
CommitTransaction(p) ==
  LET r == regs[p]
  IN /\ r.pc = "commit"
     /\ correlativos' = TrasCommit(correlativos, r.tx.corr)
     /\ comprobantes' = TrasCommit(comprobantes, r.tx.comps)
     /\ movimientos' = TrasCommit(movimientos, r.tx.movs)
     /\ detalles' = TrasCommit(detalles, r.tx.dets)
     /\ salidas' = salidas \cup r.tx.sals
     /\ regs' = [regs EXCEPT ![p] = IdleReg]
     /\ ret' = [op |-> "register", ok |-> TRUE, doc |-> r.doc,
                idComprobante |-> r.idComprobante, corr |-> r.corr,
                numero |-> r.numero,
                lotes |-> {r.lotesUsados[j].idLote : j \in 1..Len(r.lotesUsados)},
                error |-> ""]
     /\ LET escritos == {d \in r.tx.dets : d.idInventario \in hist.invLeidos}
        IN hist' = [hist EXCEPT
                   !.invEscritos = @ \cup {d.idInventario : d \in r.tx.dets},
                   !.invReleidos = @ \cup {d.idInventario : d \in escritos},
                   !.lotesReleidos = @ \cup {d.idLote : d \in escritos}
                        \cup {x.idLote : x \in {y \in r.tx.sals : \E d \in escritos :
                                                 d.id = y.idMovimientoDetalle}}]
     /\ UNCHANGED <<kardexVars, lotes, loteCache, invCache>>

\* catch (error) { queryRunner.rollbackTransaction(); throw ... }
RollbackTransaction(p) ==
  LET r == regs[p]
  IN /\ r.pc = "rollback"
     /\ regs' = [regs EXCEPT ![p] = IdleReg]
     /\ ret' = [op |-> "register", ok |-> FALSE, doc |-> r.doc,
                idComprobante |-> r.idComprobante, corr |-> r.corr,
                numero |-> r.numero,
                lotes |-> {r.lotesUsados[j].idLote : j \in 1..Len(r.lotesUsados)},
                error |-> r.error]
     /\ UNCHANGED <<kardexVars, ledgerVars, comprobantes, correlativos, loteCache, invCache,
                    hist>>

(***************************************************************************)
(* The registration machine with concurrent stock reads (Spec), and with   *)
(* a single caller that reads between its registrations (SpecCaller).      *)
(***************************************************************************)
\* position 1 with its seed lot (InventarioService.create: the lot and the
\* INV-INIT entry of stockInicial), position 2 without lots
LotesSemilla ==
  {[id |-> 1, inv |-> 1, cantidadInicial |-> 3, costoUnitario |-> 5,
    fechaIngreso |-> 0]}

MovimientosSemilla ==
  {[id |-> 1, tipo |-> "ENTRADA", fecha |-> 0, estado |-> "PROCESADO",
    numeroDocumento |-> "INV-INIT", idComprobante |-> 0]}

DetallesSemilla ==
  {[id |-> 1, idMovimiento |-> 1, idInventario |-> 1, cantidad |-> 3,
    idLote |-> 1]}

\* no counter row yet, or the counters of earlier registrations
CorrelativosIniciales ==
  {{}, {Correlativo(1, "COMPRA", 1), Correlativo(2, "VENTA", 1)}}

InitCon(P) ==
  /\ lotes = LotesSemilla
  /\ movimientos = MovimientosSemilla
  /\ detalles = DetallesSemilla
  /\ salidas = {}
  /\ comprobantes = {}
  /\ correlativos \in CorrelativosIniciales
  /\ loteCache = {}
  /\ invCache = {}
  /\ regs = [p \in P |-> IdleReg]
  /\ ret = [op |-> "init"]
  /\ hist = HistInit
  /\ lotesDisponiblesTemporales = {}
  /\ gens = <<>>

Init == InitCon(Procs)

Registrar(p) ==
  \/ \E doc \in Documentos : StartTransaction(p, doc)
  \/ FindOrCreateCorrelativo(p)
  \/ SaveComprobante(p)
  \/ ProcesarLineaCompra(p)
  \/ \E orden \in OrdenesFind(Ledger, LineaActual(p).inv) :
        ProcesarLineaVenta(p, orden)
  \/ FinProcesarLotes(p)
  \/ ValidarLotesCompra(p)
  \/ \E ahora \in 0..(TicksPerDay - 1) : CreateWithManager(p, ahora)
  \/ CommitTransaction(p)
  \/ RollbackTransaction(p)

\* concurrent registrations
Next == \E p \in Procs : Registrar(p)

Spec == Init /\ [][Next]_vars

\* calcularStockInventario(idInventario) of a position
LeerPosicion ==
  \E i \in Posiciones : \E orden \in OrdenesFind(Ledger, i) :
     LeerInventario(i, NoFecha, orden)

\* stock reads without fechaHasta
Leer ==
  \/ \E lote \in lotes : LeerLote(lote, NoFecha)
  \/ LeerPosicion

\* one registration at a time, reads of the positions' stock at any moment
InitLecturas == InitCon({1})

NextLecturas == Registrar(1) \/ LeerPosicion

SpecLecturas == InitLecturas /\ [][NextLecturas]_vars

\* one caller: it registers, and reads when its registration has returned
InitCaller == InitCon({1})

NextCaller == Registrar(1) \/ (regs[1].pc = "idle" /\ Leer)

SpecCaller == InitCaller /\ [][NextCaller]_vars

(***************************************************************************)
(* MovimientosRepository.create, updateEstado, procesarMovimiento, remove  *)
(* and InventarioService.updateInventarioInicial, each in its own          *)
(* transaction, with stock reads between them (SpecRepo).                  *)
(***************************************************************************)
MaxOps == 2         \* repository operations in a behaviour

NoDato == -1        \* a field of the payload left out

\* the payloads of create: one line on lot 1 of position 1
DtosCrear ==
  {[tipo |-> t, fecha |-> 1, estado |-> e, numeroDocumento |-> "DOC",
    idComprobante |-> 0,
    detalles |-> <<[idInventario |-> 1,
                    cantidad |-> IF t = "SALIDA" THEN 2 ELSE 1,
                    idLote |-> 1,
                    detallesSalida |-> IF t = "SALIDA"
                                       THEN <<[idLote |-> 1, cantidad |-> 2,
                                               costoUnitarioDeLote |-> 5]>>
                                       ELSE <<>>]>>] :
     t \in {"ENTRADA", "SALIDA", "AJUSTE"}, e \in {"PENDIENTE", "PROCESADO"}}

Estados == {"PENDIENTE", "PROCESADO", "CANCELADO"}

\* the positions of the line items of a movement; below, ret.mutado tells
\* whether the operation changed a PROCESADO movement, its line items or a lot
InventariosDe(id) == {d.idInventario : d \in {x \in detalles : x.idMovimiento = id}}

\* create(createMovimientoDto): dataSource.transaction(createWithManager)
Create(dto) ==
  LET id == NuevoId(IdsMovimiento)
      filas == createWithManager(id, NuevoId(IdsDetalle), dto)
  IN /\ hist.iniciados < MaxOps
     /\ movimientos' = movimientos \cup filas.movs
     /\ detalles' = detalles \cup filas.dets
     /\ salidas' = salidas \cup filas.sals
     /\ ret' = [op |-> "create", ok |-> TRUE, id |-> id,
                mutado |-> dto.estado = "PROCESADO",
                afectados |-> {d.idInventario : d \in filas.dets}]
     /\ hist' = [hist EXCEPT !.iniciados = @ + 1]
     /\ UNCHANGED <<kardexVars, lotes, comprobantes, correlativos, loteCache, invCache, regs>>

\* updateEstado(id, estado): movimientoRepository.update(id, { estado })
UpdateEstado(m, estado) ==
  /\ hist.iniciados < MaxOps
  /\ m \in movimientos
  /\ movimientos' = (movimientos \ {m}) \cup {[m EXCEPT !.estado = estado]}
  /\ ret' = [op |-> "updateEstado", ok |-> TRUE, id |-> m.id,
             mutado |-> m.estado # estado /\ "PROCESADO" \in {m.estado, estado},
             afectados |-> InventariosDe(m.id)]
  /\ hist' = [hist EXCEPT !.iniciados = @ + 1]
  /\ UNCHANGED <<kardexVars, lotes, detalles, salidas, comprobantes, correlativos,
                 loteCache, invCache, regs>>

\* remove(id): delete MovimientoDetalle { idMovimiento: id }, delete
\* Movimiento { id } (the exit allocations are reached through their line
\* item by every stock query)
Remove(m) ==
  /\ hist.iniciados < MaxOps
  /\ m \in movimientos
  /\ detalles' = {d \in detalles : d.idMovimiento # m.id}
  /\ movimientos' = movimientos \ {m}
  /\ ret' = [op |-> "remove", ok |-> TRUE, id |-> m.id,
             mutado |-> m.estado = "PROCESADO",
             afectados |-> InventariosDe(m.id)]
  /\ hist' = [hist EXCEPT !.iniciados = @ + 1]
  /\ UNCHANGED <<kardexVars, lotes, salidas, comprobantes, correlativos, loteCache,
                 invCache, regs>>

\* the order of the lots find() returns, for every position
OrdenesPorPosicion ==
  {o \in [InvIds -> UNION {OrdenesFind(Ledger, i) : i \in InvIds}] :
      \A i \in InvIds : o[i] \in OrdenesFind(Ledger, i)}

\* procesarEntrada / procesarAjuste: the lot created through the manager
LoteDeMovimiento(id, detalle, ahora) ==
  [id |-> id, inv |-> detalle.idInventario, cantidadInicial |-> detalle.cantidad,
   costoUnitario |-> 0, fechaIngreso |-> ahora]

\* procesarDetalleMovimiento(manager, detalle, tipo) from the state st of the
\* transaction: ok (nothing thrown yet), nuevos (the lots it has created),
\* and the caches
procesarDetalleMovimiento(st, detalle, tipo, ordenes, ahora) ==
  LET i == detalle.idInventario
  IN IF ~st.ok THEN st
     ELSE IF tipo = "SALIDA"
     THEN LET stockDisponible ==
                calcularStockInventario(Ledger, st.lc, st.ic, i, NoFecha, ordenes[i])
              lc1 == LoteCacheTrasInv(Ledger, st.lc, st.ic, i, NoFecha, ordenes[i])
              ic1 == InvCacheTrasInv(Ledger, st.lc, st.ic, i, NoFecha, ordenes[i])
              delLote == {l \in lotes : l.id = detalle.idLote}
          IN IF stockDisponible.stockActual < detalle.cantidad
             THEN [st EXCEPT !.ok = FALSE, !.lc = lc1, !.ic = ic1]
             ELSE IF detalle.idLote = 0
             THEN [st EXCEPT !.lc = lc1, !.ic = invalidateInventario(ic1, i)]
             ELSE IF delLote = {}
             THEN [st EXCEPT !.ok = FALSE, !.lc = lc1, !.ic = ic1]
             ELSE LET lote == CHOOSE l \in delLote : TRUE
                      stockLote == calcularStockLote(Ledger, lc1, lote, NoFecha)
                      lc2 == LoteCacheTrasLote(Ledger, lc1, lote, NoFecha)
                  IN IF stockLote.cantidadActual < detalle.cantidad
                     THEN [st EXCEPT !.ok = FALSE, !.lc = lc2, !.ic = ic1]
                     ELSE [st EXCEPT !.lc = invalidateLote(lc2, detalle.idLote),
                                     !.ic = invalidateInventario(ic1, i)]
     ELSE \* ENTRADA, AJUSTE
          [st EXCEPT
             !.nuevos = @ \cup
                {LoteDeMovimiento(NuevoId({l.id : l \in lotes \cup st.nuevos}),
                                  detalle, ahora)},
             !.ic = invalidateInventario(st.ic, i)]

\* for (const detalle of movimiento.detalles)
RECURSIVE procesarDetalles(_, _, _, _, _)
procesarDetalles(st, dets, tipo, ordenes, ahora) ==
  IF dets = {} THEN st
  ELSE LET d == CHOOSE x \in dets : \A y \in dets : x.id <= y.id
       IN procesarDetalles(procesarDetalleMovimiento(st, d, tipo, ordenes, ahora),
                           dets \ {d}, tipo, ordenes, ahora)

\* procesarMovimiento(id): in one transaction every line item is processed
\* and the movement becomes PROCESADO; a throw rolls the rows back (not the
\* cache)
ProcesarMovimiento(m, ordenes, ahora) ==
  LET st == procesarDetalles([ok |-> TRUE, nuevos |-> {}, lc |-> loteCache,
                              ic |-> invCache],
                             {d \in detalles : d.idMovimiento = m.id},
                             m.tipo, ordenes, ahora)
  IN /\ hist.iniciados < MaxOps
     /\ m \in movimientos
     /\ loteCache' = st.lc
     /\ invCache' = st.ic
     /\ IF st.ok
        THEN /\ lotes' = lotes \cup st.nuevos
             /\ movimientos' = (movimientos \ {m})
                                 \cup {[m EXCEPT !.estado = "PROCESADO"]}
        ELSE UNCHANGED <<kardexVars, lotes, movimientos>>
     /\ ret' = [op |-> "procesarMovimiento", ok |-> st.ok, id |-> m.id,
                mutado |-> st.ok /\ (st.nuevos # {} \/ m.estado # "PROCESADO"),
                afectados |-> InventariosDe(m.id)]
     /\ hist' = [hist EXCEPT !.iniciados = @ + 1]
     /\ UNCHANGED <<kardexVars, detalles, salidas, comprobantes, correlativos, regs>>

\* inventarioLoteService.update(idLote, { cantidadInicial?, costoUnitario? })
ActualizarLote(lote, cantidad, costo) ==
  [lote EXCEPT !.cantidadInicial = IF cantidad # NoDato THEN cantidad ELSE @,
               !.costoUnitario = IF costo # NoDato THEN costo ELSE @]

\* the line item left as it was
DetalleSinCambio(d, cantidad) == d

\* detalle.cantidad = data.cantidadInicial, when a quantity is given
DetalleActualizado(d, cantidad) ==
  IF cantidad # NoDato THEN [d EXCEPT !.cantidad = cantidad] ELSE d

\* updateInventarioInicial(idInventario, { cantidadInicial?, costoUnitario? })
\* on the line item d of the position's INV-INIT movement
UpdateInventarioInicial(i, d, cantidad, costo) ==
  /\ hist.iniciados < MaxOps
  /\ d \in detalles
  /\ d.idInventario = i
  /\ \E m \in movimientos : m.id = d.idMovimiento /\ m.numeroDocumento = "INV-INIT"
  /\ lotes' = {IF l.id = d.idLote /\ d.idLote # 0
               THEN ActualizarLote(l, cantidad, costo) ELSE l : l \in lotes}
  /\ detalles' = (detalles \ {d}) \cup {DetalleActualizado(d, cantidad)}
  /\ invCache' = invalidateInventario(invCache, i)
  /\ ret' = [op |-> "updateInventarioInicial", ok |-> TRUE, id |-> i,
             mutado |-> lotes' # lotes \/ detalles' # detalles,
             afectados |-> {i}, detalle |-> d.id,
             cantidad |-> cantidad, costo |-> costo]
  /\ hist' = [hist EXCEPT !.iniciados = @ + 1]
  /\ UNCHANGED <<kardexVars, movimientos, salidas, comprobantes, correlativos, loteCache, regs>>

\* position 1 with its seed lot and a PENDIENTE exit of 2 units of it
InitRepo ==
  /\ lotes = LotesSemilla
  /\ movimientos = MovimientosSemilla \cup
        {[id |-> 2, tipo |-> "SALIDA", fecha |-> 1, estado |-> "PENDIENTE",
          numeroDocumento |-> "DOC", idComprobante |-> 0]}
  /\ detalles = DetallesSemilla \cup
        {[id |-> 2, idMovimiento |-> 2, idInventario |-> 1, cantidad |-> 2,
          idLote |-> 1]}
  /\ salidas = {[idMovimientoDetalle |-> 2, idLote |-> 1, cantidad |-> 2,
                 costoUnitarioDeLote |-> 5]}
  /\ comprobantes = {}
  /\ correlativos = {}
  /\ loteCache = {}
  /\ invCache = {}
  /\ regs = RegsInit
  /\ ret = [op |-> "init"]
  /\ hist = HistInit
  /\ lotesDisponiblesTemporales = {}
  /\ gens = <<>>

NextRepo ==
  \/ \E dto \in DtosCrear : Create(dto)
  \/ \E m \in movimientos, estado \in Estados : UpdateEstado(m, estado)
  \/ \E m \in movimientos : Remove(m)
  \/ \E m \in movimientos, ordenes \in OrdenesPorPosicion, ahora \in Fechas :
        ProcesarMovimiento(m, ordenes, ahora)
  \/ \E i \in Posiciones, d \in detalles,
        cantidad \in {NoDato} \cup (1..MaxCant), costo \in {NoDato, 8} :
        UpdateInventarioInicial(i, d, cantidad, costo)
  \/ Leer

SpecRepo == InitRepo /\ [][NextRepo]_vars

(***************************************************************************)
(* Claims on the stock reads (SpecStock).                                  *)
(***************************************************************************)
\* the total remaining quantity across the lots of a position, from the ledger
RECURSIVE TotalRestante(_, _, _)
TotalRestante(L, S, f) ==
  IF S = {} THEN 0
  ELSE LET l == CHOOSE l \in S : TRUE
       IN LoteCalc(L, l, f).cantidadActual + TotalRestante(L, S \ {l}, f)

\* C1: calcularConsumoFIFO fails with InsufficientStock if and only if the
\* total remaining quantity across the position's lots is less than the
\* requested quantity, with or without fechaHasta and whatever earlier reads
\* have put in the stock cache.
C1_FallaSiiInsuficiente ==
  ret.op = "consumoFIFO" =>
    (~ret.out.ok <=> TotalRestante(Ledger, LotesDe(Ledger, ret.id), ret.fecha) < ret.cant)

\* C8: the quantity returned by calcularStockLote is never negative, for
\* every lot, ledger content and fechaHasta (given or omitted).
C8_StockLoteNoNegativo ==
  ret.op = "lote" => ret.out.cantidadActual >= 0

\* a lot whose replayed movements sum below zero was read
C8_Witness ==
  /\ ret.op = "lote"
  /\ \E l \in lotes : l.id = ret.id /\ CantidadCalculada(Ledger, l, ret.fecha) < 0
  /\ ret.out.cantidadActual = 0

\* the exit allocations recorded with lot id 0 against line items of a
\* position, in PROCESADO SALIDA movements dated on or before f
SinLote(i, f) ==
  {s \in salidas : s.idLote = 0 /\
     \E d \in detalles, m \in movimientos :
        /\ d.id = s.idMovimientoDetalle /\ d.idInventario = i
        /\ m.id = d.idMovimiento /\ m.tipo = "SALIDA" /\ m.estado = "PROCESADO"
        /\ (f # NoFecha => m.fecha <= f)}

\* C9: the quantity returned by calcularStockInventario equals
\* max(0, sum of the lots' calcularStockLote quantities minus the quantities
\* of the PROCESADO SALIDA exit allocations recorded with lot id 0 for the
\* position), all bounded by the same fechaHasta.
C9_StockInventario ==
  ret.op = "inventario" =>
    ret.out.stockActual =
      Max(0, TotalRestante(Ledger, LotesDe(Ledger, ret.id), ret.fecha)
             - SumCantidad(SinLote(ret.id, ret.fecha)))

\* a dated read of a position that has stock in two lots and lot-zero exits
C9_Witness ==
  /\ ret.op = "inventario"
  /\ ret.fecha # NoFecha
  /\ SinLote(ret.id, ret.fecha) # {}
  /\ Len(ret.out.lotes) = 2
  /\ ret.out.stockActual > 0

\* C10: obtenerLotesDisponiblesFIFO returns the lots ordered by ingress date
\* ascending with ties broken by lot id ascending.
C10_OrdenFIFO ==
  ret.op = "lotesFIFO" =>
    \A a, b \in 1..Len(ret.out) : a < b =>
       \/ ret.out[a].fechaIngreso < ret.out[b].fechaIngreso
       \/ /\ ret.out[a].fechaIngreso = ret.out[b].fechaIngreso
          /\ ret.out[a].idLote < ret.out[b].idLote

(***************************************************************************)
(* Claims on the registration of documents.                                *)
(***************************************************************************)
\* the stock of a position computed from the committed ledger alone
StockDelLedger(i) ==
  Max(0, TotalRestante(Ledger, LotesDe(Ledger, i), NoFecha)
         - SumCantidad(SinLote(i, NoFecha)))

\* C2: for one caller: when the stock of a position has been read without
\* fechaHasta and then a registration (register -> procesarLotesComprobante
\* -> createWithManager) has committed a movement on the position, every
\* later read without fechaHasta of the position's stock, and of the stock
\* of every lot the movement touched, returns the value of the ledger with
\* that movement.
C2_LecturaTrasRegistro ==
  /\ (ret.op = "inventario" /\ ret.fecha = NoFecha /\ ret.id \in hist.invReleidos)
        => ret.out.stockActual = StockDelLedger(ret.id)
  /\ (ret.op = "lote" /\ ret.fecha = NoFecha /\ ret.id \in hist.lotesReleidos)
        => \A l \in lotes : l.id = ret.id =>
              ret.out.cantidadActual = LoteCalc(Ledger, l, NoFecha).cantidadActual

\* C3: for every interleaving of a registration with stock reads without
\* fechaHasta of the same position, once the registration has committed no
\* read of the position is served a stock computed from the ledger without
\* the registration's movement.  Stated for registrations of purchases (no
\* exit allocation committed), whose cache entries of lots stay true.
C3_LecturaConcurrente ==
  (ret.op = "inventario" /\ ret.fecha = NoFecha /\ ret.id \in hist.invEscritos
     /\ salidas = {})
     => ret.out.stockActual = StockDelLedger(ret.id)

\* C5: a registration is atomic: when it returns, its document, its
\* increment of the counter, the lots created for its lines and its movement
\* are all committed, and when it fails none of them is (no lot of
\* registrarLoteCompra outlives the rollback).
C5_RegistroAtomico ==
  ret.op = "register" =>
    IF ret.ok
    THEN /\ \E c \in comprobantes : c.id = ret.idComprobante
         /\ \E m \in movimientos : m.idComprobante = ret.idComprobante
         /\ \E c \in correlativos : c.id = ret.corr /\ c.ultimoNumero = ret.numero
         /\ ret.doc.tipo = "COMPRA" => \A l \in ret.lotes : \E x \in lotes : x.id = l
    ELSE /\ ~\E c \in comprobantes : c.id = ret.idComprobante
         /\ ~\E m \in movimientos : m.idComprobante = ret.idComprobante
         /\ \A c \in correlativos : c.id = ret.corr => c.ultimoNumero = ret.numero - 1
         /\ ret.doc.tipo = "COMPRA" => \A l \in ret.lotes : ~\E x \in lotes : x.id = l

\* what a registration persists
Persistido == <<lotes, movimientos, detalles, salidas, comprobantes, correlativos>>

\* the quantity calcularConsumoFIFO can draw for a line: the stock of the
\* lots of the line's position as of the document's fechaEmision
Disponible(linea, fecha) ==
  TotalRestante(Ledger, LotesDe(Ledger, linea.inv), fecha)

\* C6: the registration of a sale with a line whose quantity exceeds the
\* stock available to the position fails with 'Stock insuficiente' under
\* either valuation method and is rolled back, and no step of it persists a
\* lot, movement, line item, exit allocation or document or changes the
\* counter.
C6_VentaSinStock ==
  [][\A p \in DOMAIN regs :
       /\ (/\ regs[p].pc = "lotes" /\ regs[p].doc.tipo = "VENTA"
           /\ regs'[p] # regs[p]
           /\ LineaActual(p).cantidad > Disponible(LineaActual(p), regs[p].doc.fecha))
            => /\ regs'[p].pc = "rollback"
               /\ regs'[p].error = "Stock insuficiente"
               /\ Persistido' = Persistido
       /\ (regs[p].pc = "rollback" /\ regs[p].doc.tipo = "VENTA" /\ regs'[p] # regs[p])
            => /\ ret'.op = "register" /\ ~ret'.ok
               /\ ret'.error = regs[p].error
               /\ regs'[p].pc = "idle"
               /\ Persistido' = Persistido
       /\ (regs[p].doc.tipo = "VENTA" /\ regs[p].pc # "commit" /\ regs'[p] # regs[p])
            => Persistido' = Persistido
    ]_vars

\* a sale of more than the position holds, under FIFO, failed
C6_Witness ==
  /\ ret.op = "register" /\ ~ret.ok
  /\ ret.error = "Stock insuficiente"
  /\ ret.doc.tipo = "VENTA" /\ ret.doc.metodo = "FIFO"
  /\ ret.doc.lineas[1].cantidad > Disponible(ret.doc.lineas[1], ret.doc.fecha)
  /\ Disponible(ret.doc.lineas[1], ret.doc.fecha) > 0

\* C7: no two committed documents of the same operation type (and tenant)
\* carry the same correlative number, for any interleaving of concurrent
\* registrations, the first ones with no counter row included.
C7_CorrelativoUnico ==
  \A c1, c2 \in comprobantes :
    (c1.id # c2.id /\ c1.tipo = c2.tipo) => c1.correlativo # c2.correlativo

\* C4: every operation that changes the rows the stock is computed from
\* (create, updateEstado, remove, procesarMovimiento,
\* updateInventarioInicial: ret.mutado) has, when it returns, removed the
\* cache entry of every position it affects.
C4_MutacionInvalida ==
  (ret.op \in {"create", "updateEstado", "remove", "procesarMovimiento",
               "updateInventarioInicial"} /\ ret.mutado)
    => \A i \in ret.afectados : getInventarioStock(invCache, i, NoFecha) = {}

(***************************************************************************)
(* Claims on the FIFO consumption and the sale cost (SpecStock).           *)
(***************************************************************************)
\* the stock of lot l of the ledger as of f
DisponibleDeLote(l, f) ==
  LET lote == CHOOSE x \in lotes : x.id = l
  IN LoteCalc(Ledger, lote, f).cantidadActual

RECURSIVE SumConsumo(_)
SumConsumo(c) == IF c = <<>> THEN 0 ELSE Head(c).cantidad + SumConsumo(Tail(c))

\* lot A (10 at 5, earlier) and lot B (10 at 8, later), as calcularStockInventario
\* returns them
EjemploA ==
  [idLote |-> 1, cantidadActual |-> 10, cantidadInicial |-> 10,
   costoUnitario |-> 5, fechaIngreso |-> 0]
EjemploB ==
  [idLote |-> 2, cantidadActual |-> 10, cantidadInicial |-> 10,
   costoUnitario |-> 8, fechaIngreso |-> 1]
EjemploStock ==
  [idInventario |-> 1, stockActual |-> 20, costoNum |-> 130, costoDen |-> 20,
   lotes |-> <<EjemploA, EjemploB>>]

RECURSIVE SumCosto(_)
SumCosto(c) ==
  IF c = <<>> THEN 0
  ELSE Head(c).cantidad * Head(c).costoUnitario + SumCosto(Tail(c))

\* the stock of the position computed from the ledger, no cache consulted
StockFresco(i, f, orden) == InventarioCalc(Ledger, {}, i, f, orden)

\* the value calcularCostoUnitarioVenta returned is the one the claim names
CostoVentaCorrecto ==
  (ret.op = "costoVenta" /\ ret.out.ok) =>
     \E orden \in OrdenesFind(Ledger, ret.id) :
        LET st == StockFresco(ret.id, ret.fecha, orden)
            c == calcularConsumoFIFO(obtenerLotesDisponiblesFIFO(st), ret.cant)
        IN IF ret.metodo = "PROMEDIO"
           THEN ret.out.costoNum * st.costoDen = st.costoNum * ret.out.costoDen
           ELSE /\ c.ok
                /\ ret.out.costoNum * SumConsumo(c.consumo)
                     = SumCosto(c.consumo) * ret.out.costoDen

ResultadoLinea(linea, costo, consumoFIFO, lc, ic) ==
  [ok |-> costo.ok /\ consumoFIFO.ok,
   costo |-> costo,
   lotes |-> [j \in 1..Len(consumoFIFO.consumo) |->
                [idLote |-> consumoFIFO.consumo[j].idLote,
                 costoUnitarioDeLote |-> consumoFIFO.consumo[j].costoUnitario,
                 cantidad |-> consumoFIFO.consumo[j].cantidad]],
   lc |-> lc,
   ic |-> invalidateInventario(ic, linea.inv)]

\* calcularConsumoFIFO after calcularCostoUnitarioVenta read `stock` and left
\* the caches lc1 and ic1
LineaTrasCosto(L, linea, metodoValoracion, f, orden, stock, lc1, ic1) ==
  ResultadoLinea(linea,
    calcularCostoUnitarioVenta(stock, linea.cantidad, metodoValoracion),
    calcularConsumoFIFO(
      obtenerLotesDisponiblesFIFO(
        calcularStockInventario(L, lc1, ic1, linea.inv, f, orden)),
      linea.cantidad),
    LoteCacheTrasInv(L, lc1, ic1, linea.inv, f, orden),
    InvCacheTrasInv(L, lc1, ic1, linea.inv, f, orden))

\* the turn of the loop that draws the whole line from the first available
\* lot when the cost is the average
procesarLineaSegunMetodo(L, lc, ic, linea, metodoValoracion, f, orden) ==
  LET stock == calcularStockInventario(L, lc, ic, linea.inv, f, orden)
      lc1 == LoteCacheTrasInv(L, lc, ic, linea.inv, f, orden)
      ic1 == InvCacheTrasInv(L, lc, ic, linea.inv, f, orden)
      costo == calcularCostoUnitarioVenta(stock, linea.cantidad, metodoValoracion)
      stock2 == calcularStockInventario(L, lc1, ic1, linea.inv, f, orden)
      disponibles == obtenerLotesDisponiblesFIFO(stock2)
      consumoFIFO == calcularConsumoFIFO(disponibles, linea.cantidad)
      consumo == IF metodoValoracion = "PROMEDIO" /\ consumoFIFO.ok
                 THEN <<[idLote |-> disponibles[1].idLote,
                         cantidad |-> linea.cantidad,
                         costoUnitario |-> disponibles[1].costoUnitario]>>
                 ELSE consumoFIFO.consumo
  IN [ok |-> costo.ok /\ consumoFIFO.ok,
      costo |-> costo,
      lotes |-> [j \in 1..Len(consumo) |->
                   [idLote |-> consumo[j].idLote,
                    costoUnitarioDeLote |-> consumo[j].costoUnitario,
                    cantidad |-> consumo[j].cantidad]],
      lc |-> LoteCacheTrasInv(L, lc1, ic1, linea.inv, f, orden),
      ic |-> invalidateInventario(
               InvCacheTrasInv(L, lc1, ic1, linea.inv, f, orden), linea.inv)]

\* one turn of the loop for a line that is not a purchase:
\* calcularCostoUnitarioVenta, then calcularConsumoFIFO (each one reads the
\* position's stock), then invalidateInventario
procesarLineaNoCompra(L, lc, ic, linea, metodoValoracion, f, orden) ==
  LineaTrasCosto(L, linea, metodoValoracion, f, orden,
    calcularStockInventario(L, lc, ic, linea.inv, f, orden),
    LoteCacheTrasInv(L, lc, ic, linea.inv, f, orden),
    InvCacheTrasInv(L, lc, ic, linea.inv, f, orden))

\* the result of the line r followed by the result s of the lines after it
UnirLineas(r, s) ==
  [ok |-> s.ok,
   costoUnitario |-> IF s.ok THEN <<r.costo>> \o s.costoUnitario ELSE <<>>,
   lotes |-> IF s.ok THEN r.lotes \o s.lotes ELSE <<>>,
   lc |-> s.lc, ic |-> s.ic]

\* the loop: { costoUnitario, lotes } and the caches it leaves, or the throw
\* (ok = FALSE) of the first line that cannot be served
RECURSIVE procesarLotesNoCompra(_, _, _, _, _, _, _)
RECURSIVE LotesTrasLinea(_, _, _, _, _, _, _)
LotesTrasLinea(L, ic, lineas, metodoValoracion, f, ordenes, r) ==
  IF ~r.ok
  THEN [ok |-> FALSE, costoUnitario |-> <<>>, lotes |-> <<>>,
        lc |-> r.lc, ic |-> ic]
  ELSE UnirLineas(r, procesarLotesNoCompra(L, r.lc, r.ic, Tail(lineas),
                                           metodoValoracion, f, ordenes))

procesarLotesNoCompra(L, lc, ic, lineas, metodoValoracion, f, ordenes) ==
  IF lineas = <<>>
  THEN [ok |-> TRUE, costoUnitario |-> <<>>, lotes |-> <<>>, lc |-> lc, ic |-> ic]
  ELSE LotesTrasLinea(L, ic, lineas, metodoValoracion, f, ordenes,
         procesarLineaNoCompra(L, lc, ic, Head(lineas), metodoValoracion,
                               f, ordenes[Head(lineas).inv]))

\* the lines of a sale: one line of 2 or MaxCant units, or two lines
LineasVenta ==
  {<<Linea(1, c, 0)>> : c \in {2, MaxCant}}
    \cup {<<Linea(1, 1, 0), Linea(1, 2, 0)>>, <<Linea(1, 2, 0), Linea(2, 1, 0)>>}

\* one row order per position for the finds of a call
OrdenesDeLotes == [InvIds -> UNION {OrdenesFind(Ledger, i) : i \in InvIds}]

\* the row orders the finds of a call may return
OrdenesPosibles == {o \in OrdenesDeLotes : \A i \in InvIds : o[i] \in OrdenesFind(Ledger, i)}

ProcesarLotesVenta(lineas, metodoValoracion, f, ordenes) ==
  \E r \in {procesarLotesNoCompra(Ledger, loteCache, invCache, lineas,
                                   metodoValoracion, f, ordenes)} :
     /\ ret' = [op |-> "procesarLotes", lineas |-> lineas,
                metodo |-> metodoValoracion, fecha |-> f,
                out |-> [ok |-> r.ok, costoUnitario |-> r.costoUnitario,
                         lotes |-> r.lotes]]
     /\ loteCache' = r.lc
     /\ invCache' = r.ic
     /\ UNCHANGED <<ledgerVars, noStock>>

NextLotes ==
  \/ \E i \in Posiciones : \E orden \in OrdenesFind(Ledger, i) :
        LeerInventario(i, NoFecha, orden)
  \/ \E lineas \in LineasVenta, metodo \in {"PROMEDIO", "FIFO"}, f \in FechaOpt :
        \E ordenes \in OrdenesPosibles : ProcesarLotesVenta(lineas, metodo, f, ordenes)

SpecLotes == InitStock /\ [][NextLotes]_vars

\* C13: for the same ledger (and caches and row orders) and the same lines
\* of a document that is not a purchase, procesarLotesComprobante returns the
\* same lotes list (the calcularConsumoFIFO output per line) under PROMEDIO
\* as under FIFO, and fails under one exactly when it fails under the other.
C13_ConsumoIndependienteDelMetodo ==
  \A lineas \in LineasVenta, f \in FechaOpt, ordenes \in OrdenesPosibles :
     LET a == procesarLotesNoCompra(Ledger, loteCache, invCache, lineas,
                                    "PROMEDIO", f, ordenes)
         b == procesarLotesNoCompra(Ledger, loteCache, invCache, lineas,
                                    "FIFO", f, ordenes)
     IN a.ok = b.ok /\ a.lotes = b.lotes

\* a call under PROMEDIO returned lots of different cost for one line, so
\* that the costs reported under the two methods differ
C13_Witness ==
  /\ ret.op = "procesarLotes" /\ ret.out.ok /\ ret.metodo = "PROMEDIO"
  /\ Len(ret.out.lotes) = 2 /\ Len(ret.lineas) = 1
  /\ ret.out.lotes[1].costoUnitarioDeLote # ret.out.lotes[2].costoUnitarioDeLote
  /\ LET c == ret.out.costoUnitario[1]
     IN c.costoNum * SumActual([k \in 1..2 |-> [cantidadActual |-> ret.out.lotes[k].cantidad]])
          # c.costoDen * SumValor([k \in 1..2 |->
                [cantidadActual |-> ret.out.lotes[k].cantidad,
                 costoUnitario |-> ret.out.lotes[k].costoUnitarioDeLote]])

(***************************************************************************)
(* KardexCalculationService (kardex-calculation.service.ts).  Unit costs   *)
(* and values are exact fractions [n, d] in lowest terms.                  *)
(***************************************************************************)
Abs(a) == IF a < 0 THEN -a ELSE a

RECURSIVE GCD(_, _)
GCD(a, b) == IF b = 0 THEN a ELSE GCD(b, a % b)

\* the number n / d (d > 0)
Frac(n, d) ==
  IF n = 0 THEN [n |-> 0, d |-> 1]
  ELSE LET g == GCD(Abs(n), d) IN [n |-> n \div g, d |-> d \div g]

FInt(k) == [n |-> k, d |-> 1]
FAdd(a, b) == Frac(a.n * b.d + b.n * a.d, a.d * b.d)
FSub(a, b) == Frac(a.n * b.d - b.n * a.d, a.d * b.d)
FMulInt(k, a) == Frac(k * a.n, a.d)
FDivInt(a, k) == Frac(a.n, a.d * k)
\* Math.max(0, a)
FMax0(a) == IF a.n < 0 THEN FInt(0) ELSE a

\* a timestamp earlier than every movement: the end of the day before day 0
AntesDeTodo == -2

\* fechaAnterior.setDate(getDate() - 1); setHours(23, 59, 59, 999)
FinDiaAnterior(t) ==
  IF Ymd(t) = 0 THEN AntesDeTodo ELSE Ymd(t) * TicksPerDay - 1

\* to.descripcion of the movement's document (undefined without document)
TipoOperacionDe(L, comps, m) ==
  IF \E c \in comps : c.id = m.idComprobante
  THEN (CHOOSE c \in comps : c.id = m.idComprobante).tipo
  ELSE ""

\* the rows of obtenerMovimientosInventario before ordering
FilasKardex(L, comps, i, fechaDesde, fechaHasta) ==
  UNION {{[idmovimientodetalle |-> d.id, md_cantidad |-> d.cantidad,
           md_id_lote |-> d.idLote, idmovimiento |-> m.id,
           tipomovimiento |-> m.tipo, m_fecha |-> m.fecha,
           c_tipoOperacion |-> TipoOperacionDe(L, comps, m)] :
             m \in {y \in L.movs : /\ y.id = d.idMovimiento
                                   /\ y.estado = "PROCESADO"
                                   /\ y.fecha >= fechaDesde
                                   /\ y.fecha <= fechaHasta}} :
          d \in {x \in L.dets : x.idInventario = i}}

\* orderBy('m.fecha', 'ASC').addOrderBy('m.id', 'ASC') (line items of one
\* movement in the order of their ids)
RECURSIVE OrdenarFilas(_)
OrdenarFilas(S) ==
  IF S = {} THEN <<>>
  ELSE LET x == CHOOSE x \in S : \A y \in S :
                   \/ x.m_fecha < y.m_fecha
                   \/ x.m_fecha = y.m_fecha /\ x.idmovimiento < y.idmovimiento
                   \/ x.m_fecha = y.m_fecha /\ x.idmovimiento = y.idmovimiento
                        /\ x.idmovimientodetalle <= y.idmovimientodetalle
       IN <<x>> \o OrdenarFilas(S \ {x})

obtenerMovimientosInventario(L, comps, i, fechaDesde, fechaHasta) ==
  OrdenarFilas(FilasKardex(L, comps, i, fechaDesde, fechaHasta))

\* calcularSaldoInicial(idInventario, fechaDesde)
SaldoCero == [cantidad |-> 0, costoUnitario |-> FInt(0), valorTotal |-> FInt(0)]

calcularSaldoInicial(L, i, fechaDesde) ==
  LET orden == CHOOSE o \in OrdenesFind(L, i) : TRUE
      stockInventario == InventarioCalc(L, {}, i, FinDiaAnterior(fechaDesde), orden)
  IN IF stockInventario.stockActual <= 0 THEN SaldoCero
     ELSE LET cantidad == stockInventario.stockActual
              costoUnitario == Frac(stockInventario.costoNum,
                                    stockInventario.costoDen)
          IN [cantidad |-> cantidad, costoUnitario |-> costoUnitario,
              valorTotal |-> FMulInt(cantidad, costoUnitario)]

\* the cost of an entry read from a lot of the ledger whatever idLote is
CostoDeAlgunLote(L, idLote) ==
  (CHOOSE l \in L.lotes : \A m \in L.lotes : l.id <= m.id).costoUnitario

\* obtenerCostoUnitarioEntrada(idLote)
obtenerCostoUnitarioEntrada(L, idLote) ==
  IF idLote = 0 \/ ~\E l \in L.lotes : l.id = idLote THEN 0
  ELSE (CHOOSE l \in L.lotes : l.id = idLote).costoUnitario

\* a row of the report; `antes` is the balance the row was computed from
FilaKardex(mov, cantidad, costoUnitario, costoTotal, saldo, idLote, antes) ==
  [fecha |-> mov.m_fecha, tipoMovimiento |-> mov.tipomovimiento,
   cantidad |-> cantidad, costoUnitario |-> costoUnitario,
   costoTotal |-> costoTotal, cantidadSaldo |-> saldo.cantidad,
   costoUnitarioSaldo |-> saldo.costoUnitario,
   valorTotalSaldo |-> saldo.valorTotal,
   idMovimiento |-> mov.idmovimiento,
   idMovimientoDetalle |-> mov.idmovimientodetalle,
   idLote |-> idLote, antes |-> antes]

\* the balance a row carries to the next one
SaldoDeFila(fila) ==
  [cantidad |-> fila.cantidadSaldo, costoUnitario |-> fila.costoUnitarioSaldo,
   valorTotal |-> fila.valorTotalSaldo]

\* nuevaCantidad > 0 ? nuevoValorTotal / nuevaCantidad : 0
NuevoSaldo(nuevaCantidad, nuevoValorTotal) ==
  [cantidad |-> nuevaCantidad,
   costoUnitario |-> IF nuevaCantidad > 0
                     THEN FDivInt(nuevoValorTotal, nuevaCantidad) ELSE FInt(0),
   valorTotal |-> nuevoValorTotal]

procesarEntrada(L, mov, saldoAnterior) ==
  LET cantidad == mov.md_cantidad
      costoUnitario == obtenerCostoUnitarioEntrada(L, mov.md_id_lote)
      costoTotal == cantidad * costoUnitario
      saldo == NuevoSaldo(saldoAnterior.cantidad + cantidad,
                          FAdd(saldoAnterior.valorTotal, FInt(costoTotal)))
  IN FilaKardex(mov, cantidad, FInt(costoUnitario), FInt(costoTotal), saldo,
                mov.md_id_lote, saldoAnterior)

\* the exit row valued at the cost of the lot of the line item
procesarSalidaCostoDeLote(mov, saldoAnterior) ==
  LET cantidad == mov.md_cantidad
      costoUnitario == FInt(8)
      costoTotal == FMulInt(cantidad, costoUnitario)
      saldo == NuevoSaldo(Max(0, saldoAnterior.cantidad - cantidad),
                          FMax0(FSub(saldoAnterior.valorTotal, costoTotal)))
  IN FilaKardex(mov, cantidad, costoUnitario, costoTotal, saldo, 0,
                saldoAnterior)

\* procesarSalida under PROMEDIO
procesarSalidaPromedio(mov, saldoAnterior) ==
  LET cantidad == mov.md_cantidad
      costoUnitario == saldoAnterior.costoUnitario
      costoTotal == FMulInt(cantidad, costoUnitario)
      saldo == NuevoSaldo(Max(0, saldoAnterior.cantidad - cantidad),
                          FMax0(FSub(saldoAnterior.valorTotal, costoTotal)))
  IN FilaKardex(mov, cantidad, costoUnitario, costoTotal, saldo, 0,
                saldoAnterior)

\* the working set as calcularCostoFIFO sorts it: by fechaIngreso, then idLote
RECURSIVE OrdenarTemporales(_)
OrdenarTemporales(T) ==
  IF T = {} THEN <<>>
  ELSE LET x == CHOOSE x \in T : \A y \in T :
                   \/ x.fechaIngreso < y.fechaIngreso
                   \/ x.fechaIngreso = y.fechaIngreso /\ x.idLote <= y.idLote
       IN <<x>> \o OrdenarTemporales(T \ {x})

\* calcularCostoFIFO(idInventario, cantidadSalida): detallesSalida
calcularCostoFIFO(T, cantidadSalida) ==
  LET disp == OrdenarTemporales({t \in T : t.cantidadDisponible > 0})
  IN Consumir([k \in 1..Len(disp) |->
                 [idLote |-> disp[k].idLote,
                  cantidadDisponible |-> disp[k].cantidadDisponible,
                  costoUnitario |-> disp[k].costoUnitario]],
              cantidadSalida).consumo

\* the working set that an exit leaves as it found it
SinDescontar(T, consumo) == T

\* loteTemp.cantidadDisponible -= cantidadDelLote, for every lot consumed
RECURSIVE DescontarTemporales(_, _)
DescontarTemporales(T, consumo) ==
  IF consumo = <<>> THEN T
  ELSE DescontarTemporales(
         {IF t.idLote = Head(consumo).idLote
          THEN [t EXCEPT !.cantidadDisponible = @ - Head(consumo).cantidad]
          ELSE t : t \in T},
         Tail(consumo))

\* the rows of procesarSalida under FIFO: one per lot consumed
RECURSIVE FilasPorLote(_, _, _)
FilasPorLote(mov, consumo, saldoActualizado) ==
  IF consumo = <<>> THEN <<>>
  ELSE LET detalle == Head(consumo)
           costoTotalLote == detalle.cantidad * detalle.costoUnitario
           saldo == NuevoSaldo(
                      Max(0, saldoActualizado.cantidad - detalle.cantidad),
                      FMax0(FSub(saldoActualizado.valorTotal, FInt(costoTotalLote))))
           fila == FilaKardex(mov, detalle.cantidad, FInt(detalle.costoUnitario),
                              FInt(costoTotalLote), saldo, detalle.idLote,
                              saldoActualizado)
       IN <<fila>> \o FilasPorLote(mov, Tail(consumo), saldo)

\* actualizarLoteTemporalEntrada(idLote, cantidad, costoUnitario, fechaIngreso)
actualizarLoteTemporalEntrada(T, idLote, cantidad, costoUnitario, fechaIngreso) ==
  IF \E t \in T : t.idLote = idLote
  THEN {IF t.idLote = idLote
        THEN [t EXCEPT !.cantidadDisponible = @ + cantidad] ELSE t : t \in T}
  ELSE T \cup {[idLote |-> idLote, cantidadDisponible |-> cantidad,
                costoUnitario |-> costoUnitario, fechaIngreso |-> fechaIngreso]}

\* inicializarLotesTemporales after its clear(): the lots it loads
CargarTemporales(L, T, i, fechaInicio) ==
  LET orden == CHOOSE o \in OrdenesFind(L, i) : TRUE
      lotesDisponibles == obtenerLotesDisponiblesFIFO(
                            InventarioCalc(L, {}, i, FinDiaAnterior(fechaInicio), orden))
      cargados == {[idLote |-> lotesDisponibles[k].idLote,
                    cantidadDisponible |-> lotesDisponibles[k].cantidadDisponible,
                    costoUnitario |-> lotesDisponibles[k].costoUnitario,
                    fechaIngreso |-> lotesDisponibles[k].fechaIngreso] :
                      k \in 1..Len(lotesDisponibles)}
  IN {t \in T : ~\E c \in cargados : c.idLote = t.idLote} \cup cargados

\* esMovimientoEntrada(tipoMovimiento, tipoOperacion)
esMovimientoEntrada(tipoMovimiento, tipoOperacion) ==
  tipoOperacion = "COMPRA" \/ tipoMovimiento = "ENTRADA"

\* the balance taken from the first of the rows of an exit
SaldoPrimeraFila(resultado, saldoActual) ==
  IF Len(resultado) > 0 THEN SaldoDeFila(resultado[1]) ELSE saldoActual

\* 'Actualizar saldo con el ultimo movimiento del array'
SaldoTrasFilas(resultado, saldoActual) ==
  IF Len(resultado) > 0 THEN SaldoDeFila(resultado[Len(resultado)])
  ELSE saldoActual

\* one turn of the loop of procesarMovimientos: the rows it appends, the
\* balance and the working set it leaves
TurnoKardex(L, mov, saldoActual, T, metodoValoracion) ==
  IF esMovimientoEntrada(mov.tipomovimiento, mov.c_tipoOperacion)
  THEN LET fila == procesarEntrada(L, mov, saldoActual)
       IN [filas |-> <<fila>>, saldo |-> SaldoDeFila(fila),
           T |-> IF metodoValoracion = "FIFO" /\ mov.md_id_lote # 0
                 THEN actualizarLoteTemporalEntrada(T, mov.md_id_lote,
                        fila.cantidad, fila.costoUnitario.n, fila.fecha)
                 ELSE T]
  ELSE IF metodoValoracion = "PROMEDIO"
       THEN LET fila == procesarSalidaPromedio(mov, saldoActual)
            IN [filas |-> <<fila>>, saldo |-> SaldoDeFila(fila), T |-> T]
       ELSE LET consumo == calcularCostoFIFO(T, mov.md_cantidad)
                resultado == FilasPorLote(mov, consumo, saldoActual)
            IN [filas |-> resultado,
                saldo |-> SaldoTrasFilas(resultado, saldoActual),
                T |-> DescontarTemporales(T, consumo)]

\* the loop of procesarMovimientos over the rows movs
RECURSIVE Replay(_, _, _, _, _)
Replay(L, movs, saldoActual, T, metodoValoracion) ==
  IF movs = <<>> THEN [filas |-> <<>>, saldo |-> saldoActual, T |-> T]
  ELSE LET t == TurnoKardex(L, Head(movs), saldoActual, T, metodoValoracion)
           r == Replay(L, Tail(movs), t.saldo, t.T, metodoValoracion)
       IN [filas |-> t.filas \o r.filas, saldo |-> r.saldo, T |-> r.T]

\* the result of generarKardex from the rows of procesarMovimientos:
\* ultimoMovimiento?.x || saldoInicial.x  (0 and undefined are falsy)
ResultadoKardex(saldoInicial, movimientosKardex) ==
  LET n == Len(movimientosKardex)
      stockFinal == IF n > 0 /\ movimientosKardex[n].cantidadSaldo # 0
                    THEN movimientosKardex[n].cantidadSaldo
                    ELSE saldoInicial.cantidad
      costoUnitarioFinal ==
        IF n > 0 /\ movimientosKardex[n].costoUnitarioSaldo.n # 0
        THEN movimientosKardex[n].costoUnitarioSaldo
        ELSE saldoInicial.costoUnitario
  IN [saldoInicial |-> saldoInicial, movimientos |-> movimientosKardex,
      stockFinal |-> stockFinal, costoUnitarioFinal |-> costoUnitarioFinal,
      valorTotalFinal |-> FMulInt(stockFinal, costoUnitarioFinal)]

\* generarKardex(idInventario, fechaDesde, fechaHasta, metodoValoracion) of
\* an existing position, run with no other generation in flight
generarKardex(L, comps, i, fechaDesde, fechaHasta, metodoValoracion) ==
  LET movs == obtenerMovimientosInventario(L, comps, i, fechaDesde, fechaHasta)
      saldoInicial == calcularSaldoInicial(L, i, fechaDesde)
      T == IF metodoValoracion = "FIFO"
           THEN CargarTemporales(L, {}, i, fechaDesde) ELSE {}
  IN ResultadoKardex(saldoInicial,
                     Replay(L, movs, saldoInicial, T, metodoValoracion).filas)

\* lotesDisponiblesTemporales of a generation with no other in flight: as
\* inicializarLotesTemporales loads it and as procesarMovimientos leaves it
TemporalesDeKardex(L, comps, i, fechaDesde, fechaHasta, metodoValoracion) ==
  IF metodoValoracion = "FIFO"
  THEN [cargados |-> CargarTemporales(L, {}, i, fechaDesde),
        finales |-> Replay(L, obtenerMovimientosInventario(L, comps, i,
                                                           fechaDesde, fechaHasta),
                           calcularSaldoInicial(L, i, fechaDesde),
                           CargarTemporales(L, {}, i, fechaDesde), "FIFO").T]
  ELSE [cargados |-> {}, finales |-> {}]

\* KardexService.generateKardexReport: the response built from kardexResult
\* (toFixed keeps the 4 and 8 decimals the columns hold)
RespuestaKardex(kardexResult) ==
  LET movs == kardexResult.movimientos
      primerMovimiento == movs[1]
      inicial ==
        IF movs = <<>> THEN [cantidad |-> 0, valor |-> FInt(0)]
        ELSE IF primerMovimiento.tipoMovimiento = "ENTRADA"
             THEN [cantidad |-> primerMovimiento.cantidadSaldo
                                  - primerMovimiento.cantidad,
                   valor |-> FSub(primerMovimiento.valorTotalSaldo,
                                  primerMovimiento.costoTotal)]
             ELSE [cantidad |-> primerMovimiento.cantidadSaldo
                                  + primerMovimiento.cantidad,
                   valor |-> FAdd(primerMovimiento.valorTotalSaldo,
                                  primerMovimiento.costoTotal)]
  IN [ok |-> TRUE,
      inventarioInicialCantidad |-> inicial.cantidad,
      inventarioInicialCostoTotal |-> inicial.valor,
      movimientos |-> movs,
      cantidadActual |-> kardexResult.stockFinal,
      saldoActual |-> kardexResult.stockFinal,
      costoFinal |-> kardexResult.valorTotalFinal]

\* generateKardexReport(request); configuracion is what
\* periodoContableService.obtenerConfiguracion answers: a valuation method,
\* or "" when it throws; fechaInicio and fechaFin may be left out
generateKardexReport(L, comps, i, fechaInicio, fechaFin, configuracion, ahora) ==
  IF configuracion = "" THEN [ok |-> FALSE]
  ELSE RespuestaKardex(
         generarKardex(L, comps, i,
                       IF fechaInicio = NoFecha THEN AntesDeTodo ELSE fechaInicio,
                       IF fechaFin = NoFecha THEN ahora ELSE fechaFin,
                       configuracion))

(***************************************************************************)
(* Kardex generations over a ledger, one at a time (SpecKardex).           *)
(***************************************************************************)
\* new Date(year, 0, 1, 0, 0, 0, 0), `${year}-01-01`: the first instant of
\* day d
InicioDelDia(d) == d * TicksPerDay

Dias == {Ymd(t) : t \in Fechas}

\* setHours(23, 59, 59, 999): the last instant of day d
FinDelDia(d) == d * TicksPerDay + TicksPerDay - 1

\* InventarioService.getFechaHastaParaPersona(personaId); periodoFin is the
\* day the active period ends on, NoFecha without personaId or when
\* obtenerPeriodoActivo throws
getFechaHastaParaPersona(periodoFin, ahora) ==
  IF periodoFin # NoFecha THEN FinDelDia(periodoFin) ELSE FinDelDia(Ymd(ahora))

noKardex == <<ledgerVars, loteCache, invCache, comprobantes, correlativos,
              regs, hist, gens>>

GenerarKardex(i, fechaDesde, fechaHasta, metodoValoracion) ==
  /\ fechaDesde <= fechaHasta
  /\ ret' = [op |-> "kardex", id |-> i, desde |-> fechaDesde,
             hasta |-> fechaHasta, metodo |-> metodoValoracion,
             out |-> generarKardex(Ledger, comprobantes, i, fechaDesde,
                                   fechaHasta, metodoValoracion),
             temporales |-> TemporalesDeKardex(Ledger, comprobantes, i,
                              fechaDesde, fechaHasta, metodoValoracion)]
  /\ lotesDisponiblesTemporales' = {}
  /\ UNCHANGED noKardex

GenerateKardexReport(i, fechaInicio, fechaFin, configuracion) ==
  /\ ret' = [op |-> "kardexReport", id |-> i, desde |-> fechaInicio,
             hasta |-> fechaFin, metodo |-> configuracion,
             out |-> generateKardexReport(Ledger, comprobantes, i, fechaInicio,
                                          fechaFin, configuracion, MaxFecha)]
  /\ lotesDisponiblesTemporales' =
       IF configuracion = "" THEN lotesDisponiblesTemporales ELSE {}
  /\ UNCHANGED noKardex

\* InventarioService.findAll(personaId) (findByAlmacen and findByProducto
\* compute the stock the same way): the stock of every position as of
\* getFechaHastaParaPersona; a dated read neither uses nor fills the cache
FindAll(periodoFin, ahora) ==
  /\ ret' = [op |-> "findAll", periodo |-> periodoFin, ahora |-> ahora,
             ok |-> TRUE,
             out |-> [i \in Posiciones |->
                        calcularStockInventario(Ledger, loteCache, invCache, i,
                          getFechaHastaParaPersona(periodoFin, ahora),
                          CHOOSE o \in OrdenesFind(Ledger, i) : TRUE).stockActual]]
  /\ UNCHANGED <<noKardex, lotesDisponiblesTemporales>>

NextKardex ==
  \/ \E periodoFin \in Dias \cup {NoFecha}, ahora \in Fechas :
        FindAll(periodoFin, ahora)
  \/ \E i \in Posiciones, fechaDesde \in Fechas, fechaHasta \in Fechas :
        \E metodo \in {"PROMEDIO", "FIFO"} :
           GenerarKardex(i, fechaDesde, fechaHasta, metodo)
  \/ \E i \in Posiciones, fechaInicio \in FechaOpt, fechaFin \in FechaOpt :
        \E configuracion \in {"PROMEDIO", "FIFO", ""} :
           GenerateKardexReport(i, fechaInicio, fechaFin, configuracion)

SpecKardex == InitStock /\ [][NextKardex]_vars

(***************************************************************************)
(* Claims on the Kardex report (SpecKardex).                               *)
(***************************************************************************)
\* C14: for every adjacent pair of report rows the balance quantity and
\* value that row N+1 is computed from are the balance quantity and value
\* row N ended with, and the first row is computed from the opening
\* balance, under PROMEDIO and FIFO, the per-lot rows of a FIFO exit
\* included.
C14_SaldoContinuo ==
  ret.op = "kardex" =>
    LET filas == ret.out.movimientos
    IN \A n \in 1..Len(filas) :
         LET previo == IF n = 1 THEN ret.out.saldoInicial
                       ELSE SaldoDeFila(filas[n - 1])
         IN /\ filas[n].antes.cantidad = previo.cantidad
            /\ filas[n].antes.valorTotal = previo.valorTotal
            /\ IF filas[n].tipoMovimiento = "ENTRADA"
               THEN /\ filas[n].cantidadSaldo
                         = previo.cantidad + filas[n].cantidad
                    /\ filas[n].valorTotalSaldo
                         = FAdd(previo.valorTotal, filas[n].costoTotal)
               ELSE /\ filas[n].cantidadSaldo
                         = Max(0, previo.cantidad - filas[n].cantidad)
                    /\ filas[n].valorTotalSaldo
                         = FMax0(FSub(previo.valorTotal, filas[n].costoTotal))

\* a FIFO report in which an exit fanned out into two rows and another row
\* follows them
C14_Witness ==
  /\ ret.op = "kardex" /\ ret.metodo = "FIFO"
  /\ \E n \in 1..Len(ret.out.movimientos) :
        /\ n + 2 <= Len(ret.out.movimientos)
        /\ ret.out.movimientos[n].idMovimientoDetalle
             = ret.out.movimientos[n + 1].idMovimientoDetalle
        /\ ret.out.movimientos[n].cantidadSaldo
             # ret.out.movimientos[n + 1].cantidadSaldo

\* C15: the final balance of generarKardex (stockFinal, costoUnitarioFinal,
\* valorTotalFinal) is the resulting balance of the last report row, and the
\* opening balance when the window has no rows; when the last row leaves a
\* balance quantity of zero the final quantity is zero.
C15_SaldoFinal ==
  ret.op = "kardex" =>
    LET filas == ret.out.movimientos
        final == IF filas = <<>> THEN ret.out.saldoInicial
                 ELSE SaldoDeFila(filas[Len(filas)])
    IN /\ ret.out.stockFinal = final.cantidad
       /\ ret.out.costoUnitarioFinal = final.costoUnitario
       /\ ret.out.valorTotalFinal = final.valorTotal

\* C16: the opening balance of the Kardex report (inventarioInicialCantidad,
\* inventarioInicialCostoTotal) is the stock of the position as of the end
\* of the day before fechaInicio (quantity, and quantity times the weighted
\* average cost), {0, 0} when that stock is not positive, for every ledger
\* and window, windows with no movement and windows whose first row is an
\* exit floored at zero included.
C16_SaldoInicialDelReporte ==
  (ret.op = "kardexReport" /\ ret.out.ok) =>
    LET saldoInicial ==
          calcularSaldoInicial(Ledger, ret.id,
            IF ret.desde = NoFecha THEN AntesDeTodo ELSE ret.desde)
    IN /\ ret.out.inventarioInicialCantidad = saldoInicial.cantidad
       /\ ret.out.inventarioInicialCostoTotal = saldoInicial.valorTotal

(***************************************************************************)
(* InventarioService.create (inventario.service.ts) on an empty ledger,    *)
(* followed by Kardex generations (SpecSemilla).  The server clock is UTC. *)
(***************************************************************************)
\* create(createInventarioDto, personaId) of position i; anio is the day
\* the active period's year starts on, NoFecha without personaId or when
\* obtenerPeriodoActivo throws
CrearInventario(i, stockInicial, precioUnitario, anio, ahora) ==
  IF i \in Posiciones \cup hist.inventarios
  THEN /\ ret' = [op |-> "crearInventario", ok |-> FALSE, id |-> i]
       /\ UNCHANGED <<ledgerVars, loteCache, invCache, comprobantes,
                      correlativos, regs, hist, kardexVars>>
  ELSE LET fechaIngreso == IF anio = NoFecha THEN InicioDelDia(Ymd(ahora))
                           ELSE InicioDelDia(anio)
           fechaMovimiento == IF anio = NoFecha THEN ahora
                              ELSE InicioDelDia(anio)
           idLote == NuevoId({l.id : l \in lotes})
           idMovimiento == NuevoId(IdsMovimiento)
           idDetalle == NuevoId(IdsDetalle)
           conStock == stockInicial > 0 /\ precioUnitario > 0
       IN /\ hist' = [hist EXCEPT !.inventarios = @ \cup {i}]
          /\ lotes' = IF conStock
                      THEN lotes \cup {[id |-> idLote, inv |-> i,
                                        cantidadInicial |-> stockInicial,
                                        costoUnitario |-> precioUnitario,
                                        fechaIngreso |-> fechaIngreso]}
                      ELSE lotes
          /\ movimientos' = IF conStock
                            THEN movimientos \cup
                                   {[id |-> idMovimiento, tipo |-> "ENTRADA",
                                     fecha |-> fechaMovimiento,
                                     estado |-> "PROCESADO",
                                     numeroDocumento |-> "INV-INIT",
                                     idComprobante |-> 0]}
                            ELSE movimientos
          /\ detalles' = IF conStock
                         THEN detalles \cup
                                {[id |-> idDetalle, idMovimiento |-> idMovimiento,
                                  idInventario |-> i, cantidad |-> stockInicial,
                                  idLote |-> idLote]}
                         ELSE detalles
          /\ ret' = [op |-> "crearInventario", ok |-> TRUE, id |-> i]
          /\ UNCHANGED <<salidas, loteCache, invCache, comprobantes,
                         correlativos, regs, kardexVars>>

InitSemilla ==
  /\ lotes = {}
  /\ movimientos = {}
  /\ detalles = {}
  /\ salidas = {}
  /\ comprobantes = {}
  /\ correlativos = {}
  /\ loteCache = {}
  /\ invCache = {}
  /\ regs = RegsInit
  /\ ret = [op |-> "init"]
  /\ hist = HistInit
  /\ lotesDisponiblesTemporales = {}
  /\ gens = <<>>

NextSemilla ==
  \/ \E i \in InvIds, stockInicial \in 0..MaxCant, precioUnitario \in {0, 5, 8} :
        \E anio \in Dias \cup {NoFecha}, ahora \in Fechas :
           CrearInventario(i, stockInicial, precioUnitario, anio, ahora)
  \/ \E i \in Posiciones, fechaDesde \in Fechas, fechaHasta \in Fechas :
        \E metodo \in {"PROMEDIO", "FIFO"} :
           GenerarKardex(i, fechaDesde, fechaHasta, metodo)

SpecSemilla == InitSemilla /\ [][NextSemilla]_vars

\* the seed lot of position i
LoteSemilla(i) == CHOOSE l \in lotes : l.inv = i

\* C17: after seeding a new position with one initial-balance lot of
\* quantity Q at cost C, the Kardex for the window [seedDate, seedDate] has
\* opening balance {0, 0} and exactly one row, an entry of quantity Q at
\* unit cost C with resulting balance Q at unit cost C, under both methods.
C17_RoundTrip ==
  (/\ ret.op = "kardex"
   /\ ret.desde = LoteSemilla(ret.id).fechaIngreso
   /\ ret.hasta = LoteSemilla(ret.id).fechaIngreso) =>
    LET Q == LoteSemilla(ret.id).cantidadInicial
        C == LoteSemilla(ret.id).costoUnitario
        filas == ret.out.movimientos
    IN /\ ret.out.saldoInicial = SaldoCero
       /\ Len(filas) = 1
       /\ filas[1].tipoMovimiento = "ENTRADA"
       /\ filas[1].cantidad = Q
       /\ filas[1].costoUnitario = FInt(C)
       /\ filas[1].cantidadSaldo = Q
       /\ filas[1].costoUnitarioSaldo = FInt(C)

(***************************************************************************)
(* Concurrent generarKardex calls on the one KardexCalculationService      *)
(* (SpecKardexConc).  A call runs from one await to the next; between two  *)
(* of its steps the other calls may run.  The reads of the ledger are      *)
(* awaits: the query for the rows, calcularSaldoInicial,                   *)
(* obtenerLotesDisponiblesFIFO in inicializarLotesTemporales and           *)
(* obtenerCostoUnitarioEntrada in procesarEntrada.  procesarSalida and the *)
(* clear() calls are synchronous.                                          *)
(***************************************************************************)
MaxGens == 2        \* generarKardex calls in flight

Gens == 1..MaxGens

IdleGen == [pc |-> "idle"]

\* the loop of procesarMovimientos from its current row up to the next
\* await: the exits are processed, an entry suspends the call, the end of
\* the rows clears the working set
RECURSIVE AvanzarSalidas(_, _, _)
AvanzarSalidas(L, st, T) ==
  IF st.pend = <<>> THEN [st |-> [st EXCEPT !.pc = "fin"], T |-> {}]
  ELSE IF esMovimientoEntrada(Head(st.pend).tipomovimiento,
                              Head(st.pend).c_tipoOperacion)
       THEN [st |-> [st EXCEPT !.pc = "entrada"], T |-> T]
       ELSE LET t == TurnoKardex(L, Head(st.pend), st.saldo, T, st.metodo)
            IN AvanzarSalidas(L, [st EXCEPT !.pend = Tail(@),
                                            !.saldo = t.saldo,
                                            !.filas = @ \o t.filas], t.T)

noGens == <<ledgerVars, loteCache, invCache, comprobantes, correlativos,
            regs, hist>>

\* generarKardex up to the first await of procesarMovimientos: under FIFO
\* the clear() of inicializarLotesTemporales, under PROMEDIO the loop up to
\* the first entry
IniciarKardex(g, i, fechaDesde, fechaHasta, metodoValoracion) ==
  /\ gens[g].pc = "idle"
  /\ fechaDesde <= fechaHasta
  /\ LET saldoInicial == calcularSaldoInicial(Ledger, i, fechaDesde)
         st == [pc |-> "cargar", id |-> i, desde |-> fechaDesde,
                hasta |-> fechaHasta, metodo |-> metodoValoracion,
                pend |-> obtenerMovimientosInventario(Ledger, comprobantes, i,
                                                      fechaDesde, fechaHasta),
                saldoInicial |-> saldoInicial, saldo |-> saldoInicial,
                filas |-> <<>>]
     IN IF metodoValoracion = "FIFO"
        THEN /\ gens' = [gens EXCEPT ![g] = st]
             /\ lotesDisponiblesTemporales' = {}
        ELSE \E r \in {AvanzarSalidas(Ledger, st, lotesDisponiblesTemporales)} :
                /\ gens' = [gens EXCEPT ![g] = r.st]
                /\ lotesDisponiblesTemporales' = r.T
  /\ UNCHANGED <<noGens, ret>>

\* inicializarLotesTemporales after its await: the lots are loaded, then the
\* loop runs up to the first entry
CargarLotes(g) ==
  /\ gens[g].pc = "cargar"
  /\ \E r \in {AvanzarSalidas(Ledger, gens[g],
                 CargarTemporales(Ledger, lotesDisponiblesTemporales,
                                  gens[g].id, gens[g].desde))} :
        /\ gens' = [gens EXCEPT ![g] = r.st]
        /\ lotesDisponiblesTemporales' = r.T
  /\ UNCHANGED <<noGens, ret>>

\* procesarEntrada after its await: the entry row, the working set updated,
\* then the loop up to the next entry
ReanudarEntrada(g) ==
  /\ gens[g].pc = "entrada"
  /\ LET st == gens[g]
         t == TurnoKardex(Ledger, Head(st.pend), st.saldo,
                          lotesDisponiblesTemporales, st.metodo)
     IN \E r \in {AvanzarSalidas(Ledger, [st EXCEPT !.pend = Tail(@),
                                                   !.saldo = t.saldo,
                                                   !.filas = @ \o t.filas],
                                 t.T)} :
           /\ gens' = [gens EXCEPT ![g] = r.st]
           /\ lotesDisponiblesTemporales' = r.T
  /\ UNCHANGED <<noGens, ret>>

\* generarKardex returns its result
TerminarKardex(g) ==
  /\ gens[g].pc = "fin"
  /\ ret' = [op |-> "kardexConc", g |-> g, id |-> gens[g].id,
             desde |-> gens[g].desde, hasta |-> gens[g].hasta,
             metodo |-> gens[g].metodo,
             out |-> ResultadoKardex(gens[g].saldoInicial, gens[g].filas)]
  /\ gens' = [gens EXCEPT ![g] = [pc |-> "hecho"]]
  /\ UNCHANGED <<noGens, lotesDisponiblesTemporales>>

InitKardexConc ==
  /\ lotes \in LotesIniciales
  /\ \E I \in SUBSET (1..Len(Plantillas)) :
        /\ Cardinality(I) <= MaxMovs
        /\ movimientos = MovimientosDe(I)
        /\ detalles = DetallesDeMovs(I)
        /\ salidas = SalidasDeMovs(I)
  /\ comprobantes = {}
  /\ correlativos = {}
  /\ loteCache = {}
  /\ invCache = {}
  /\ regs = RegsInit
  /\ ret = [op |-> "init"]
  /\ hist = HistInit
  /\ lotesDisponiblesTemporales = {}
  /\ gens = [g \in Gens |-> IdleGen]

NextKardexConc ==
  \/ \E g \in Gens, i \in Posiciones, fechaDesde \in Fechas, fechaHasta \in Fechas :
        \E metodo \in {"PROMEDIO", "FIFO"} :
           IniciarKardex(g, i, fechaDesde, fechaHasta, metodo)
  \/ \E g \in Gens : CargarLotes(g)
  \/ \E g \in Gens : ReanudarEntrada(g)
  \/ \E g \in Gens : TerminarKardex(g)

SpecKardexConc == InitKardexConc /\ [][NextKardexConc]_vars

\* C18: the FIFO working lot set of a Kardex generation is private to it:
\* for every interleaving of concurrent generarKardex calls on the shared
\* service each call's report is the report the call produces when it runs
\* alone on the same ledger.
C18_ReporteComoEnSolitario ==
  ret.op = "kardexConc" =>
    ret.out = generarKardex(Ledger, comprobantes, ret.id, ret.desde,
                            ret.hasta, ret.metodo)

\* C19: a failure of the period and valuation configuration lookup never
\* reaches the caller of a read: the stock listings fall back to the current
\* date as cutoff and return a result, and the Kardex report completes too
\* when the lookup throws.
C19_FalloDeConfiguracionNoAflora ==
  /\ (ret.op = "findAll" /\ ret.periodo = NoFecha) =>
        /\ ret.ok
        /\ \A i \in Posiciones :
              ret.out[i] = InventarioCalc(Ledger, {}, i, FinDelDia(Ymd(ret.ahora)),
                             CHOOSE o \in OrdenesFind(Ledger, i) : TRUE).stockActual
  /\ (ret.op = "kardexReport" /\ ret.metodo = "") => ret.out.ok

UpdateStock(i, cantidad, orden) ==
  /\ \E stockActual \in {calcularStockInventario(Ledger, loteCache, invCache,
                                                 i, NoFecha, orden).stockActual} :
        ret' = [op |-> "updateStock", id |-> i, cantidad |-> cantidad,
                stockActual |-> stockActual,
                ok |-> stockActual + cantidad >= 0]
  /\ loteCache' = LoteCacheTrasInv(Ledger, loteCache, invCache, i, NoFecha, orden)
  /\ invCache' = InvCacheTrasInv(Ledger, loteCache, invCache, i, NoFecha, orden)
  /\ hist' = [hist EXCEPT !.invLeidos = @ \cup {i}]
  /\ UNCHANGED <<kardexVars, ledgerVars, comprobantes, correlativos, regs>>

NextAjuste ==
  \/ \E i \in Posiciones, cantidad \in (0 - MaxCant)..MaxCant :
        \E orden \in OrdenesFind(Ledger, i) : UpdateStock(i, cantidad, orden)
  \/ \E i \in Posiciones : \E orden \in OrdenesFind(Ledger, i) :
        LeerInventario(i, NoFecha, orden)

SpecAjuste == InitStock /\ [][NextAjuste]_vars

\* C21: updateStock(id, cantidad) adds cantidad to the stock of the position
\* (subtracts it when negative): when the current stock plus cantidad is not
\* negative the stock computed afterwards is the previous stock plus
\* cantidad; otherwise the call fails and the stock is unchanged.
C21_UpdateStock ==
  ret.op = "updateStock" =>
    \A orden \in OrdenesFind(Ledger, ret.id) :
       calcularStockInventario(Ledger, loteCache, invCache, ret.id, NoFecha,
                               orden).stockActual
         = IF ret.ok THEN ret.stockActual + ret.cantidad ELSE ret.stockActual

(***************************************************************************)
(* Claims on the lots of a document (SpecLotes, Spec).                     *)
(***************************************************************************)
\* the quantity the entries of lotesUsados attribute to lot l
RECURSIVE CantidadAtribuida(_, _)
CantidadAtribuida(lotesUsados, l) ==
  IF lotesUsados = <<>> THEN 0
  ELSE (IF Head(lotesUsados).idLote = l THEN Head(lotesUsados).cantidad ELSE 0)
         + CantidadAtribuida(Tail(lotesUsados), l)

\* the quantity the lines ask of position i
RECURSIVE CantidadPedida(_, _)
CantidadPedida(lineas, i) ==
  IF lineas = <<>> THEN 0
  ELSE (IF Head(lineas).inv = i THEN Head(lineas).cantidad ELSE 0)
         + CantidadPedida(Tail(lineas), i)

\* C22: within one document no lot is over-allocated: over the non-purchase
\* lines of one call of procesarLotesComprobante the quantity attributed to
\* a lot across all entries of lotesUsados never exceeds what the lot held
\* before the document, and the call fails when the lines of a position ask
\* for more than the position's available stock.
C22_SinSobreasignacion ==
  (ret.op = "procesarLotes" /\ ret.out.ok) =>
     /\ \A l \in lotes :
           CantidadAtribuida(ret.out.lotes, l.id) <= DisponibleDeLote(l.id, ret.fecha)
     /\ \A i \in Posiciones : \A orden \in OrdenesFind(Ledger, i) :
           CantidadPedida(ret.lineas, i)
             <= InventarioCalc(Ledger, {}, i, ret.fecha, orden).stockActual

(***************************************************************************)
(* The registration of a document that is not a purchase, alone in its     *)
(* transaction (SpecSalidas): procesarLotesComprobante, the dto of         *)
(* MovimientoFactory and the rows of createWithManager, committed.         *)
(***************************************************************************)
MaxSalidas == 1     \* registrations in a behaviour of SpecSalidas

\* the rows of a document whose lots are lotesUsados; none when
\* procesarLotesComprobante threw
FilasDeSalida(doc, ok, lotesUsados, ahora) ==
  IF ok
  THEN createWithManager(NuevoId(IdsMovimiento), NuevoId(IdsDetalle),
         createMovimientoFromComprobante(doc, 0, lotesUsados, ahora))
  ELSE [movs |-> {}, dets |-> {}, sals |-> {}]

RegistrarSalida(lineas, metodoValoracion, fechaEmision, ordenes, ahora) ==
  /\ hist.iniciados < MaxSalidas
  /\ \E r \in {procesarLotesNoCompra(Ledger, loteCache, invCache, lineas,
                                     metodoValoracion, fechaEmision, ordenes)} :
      \E filas \in {FilasDeSalida([tipo |-> "VENTA", metodo |-> metodoValoracion,
                                   fecha |-> fechaEmision, lineas |-> lineas],
                                  r.ok, r.lotes, ahora)} :
         /\ movimientos' = movimientos \cup filas.movs
         /\ detalles' = detalles \cup filas.dets
         /\ salidas' = salidas \cup filas.sals
         /\ loteCache' = r.lc
         /\ invCache' = r.ic
         /\ ret' = [op |-> "registrarSalida", ok |-> r.ok, lineas |-> lineas,
                    fecha |-> fechaEmision, ordenes |-> ordenes,
                    antes |-> Ledger,
                    idMovimiento |-> NuevoId(IdsMovimiento),
                    idDetalle |-> NuevoId(IdsDetalle)]
  /\ hist' = [hist EXCEPT !.iniciados = @ + 1]
  /\ UNCHANGED <<lotes, comprobantes, correlativos, regs, kardexVars>>

NextSalidas ==
  \E lineas \in LineasVenta, metodo \in {"PROMEDIO", "FIFO"}, f \in Fechas :
        \E ordenes \in OrdenesPosibles, ahora \in 0..(TicksPerDay - 1) :
           RegistrarSalida(lineas, metodo, f, ordenes, ahora)

SpecSalidas == InitStock /\ [][NextSalidas]_vars

\* the rows of detalle_salida of the line item idDetalle
SalidasDeDetalle(idDetalle) == {s \in salidas : s.idMovimientoDetalle = idDetalle}

\* calcularConsumoFIFO of a line over the ledger L as of f
ConsumoDeLinea(L, linea, f, orden) ==
  calcularConsumoFIFO(
    obtenerLotesDisponiblesFIFO(calcularStockInventario(L, {}, {}, linea.inv, f, orden)),
    linea.cantidad).consumo

TurnoDeCompra(p) ==
  LET r == regs[p]
      linea == r.doc.lineas[r.k]
  IN IF linea.cantidad > 0 /\ linea.precioUnitario >= 0
     THEN \E l \in lotes' \ lotes :
             /\ lotes' = lotes \cup {l}
             /\ l.cantidadInicial = 0
             /\ l.costoUnitario = linea.precioUnitario
             /\ l.inv = linea.inv
             /\ regs'[p].lotesUsados
                  = Append(r.lotesUsados,
                           [idLote |-> l.id,
                            costoUnitarioDeLote |-> linea.precioUnitario,
                            cantidad |-> linea.cantidad])
     ELSE /\ lotes' = lotes
          /\ regs'[p].pc = "rollback"
          /\ regs'[p].lotesUsados = r.lotesUsados

\* the committed purchase whose result is in ret: its ENTRADA has one line
\* item per line, each on a lot of its own that the document created, and
\* calcularStockLote of that lot is the line's quantity
CompraCommitida ==
  \E m \in movimientos :
     /\ m.idComprobante = ret.idComprobante
     /\ m.tipo = "ENTRADA" /\ m.estado = "PROCESADO"
     /\ \E D \in {{d \in detalles : d.idMovimiento = m.id}} :
           /\ Cardinality(D) = Len(ret.doc.lineas)
           /\ Cardinality({d.idLote : d \in D}) = Len(ret.doc.lineas)
           /\ {d.idLote : d \in D} = ret.lotes
           /\ \E primero \in {d.id : d \in D} :
                 \A k \in 1..Len(ret.doc.lineas) :
                    \E d \in D, l \in lotes :
                       /\ d.id = primero + k - 1
                       /\ d.idInventario = ret.doc.lineas[k].inv
                       /\ d.cantidad = ret.doc.lineas[k].cantidad
                       /\ d.idLote = l.id
                       /\ l.inv = ret.doc.lineas[k].inv
                       /\ l.cantidadInicial = 0
                       /\ l.costoUnitario = ret.doc.lineas[k].precioUnitario
                       /\ DisponibleDeLote(l.id, NoFecha) = ret.doc.lineas[k].cantidad

C25_SaldoDelLote ==
  ret.op = "lote" =>
    \A l \in lotes : l.id = ret.id =>
       ret.out.cantidadActual
         = Max(0, l.cantidadInicial + Entradas(Ledger, l.id, ret.fecha)
                    - SalidasDeLote(Ledger, l.id, ret.fecha)
                    + Ajustes(Ledger, l.id, ret.fecha))

\* some PROCESADO movement dated on or before f references the lot l: an
\* ENTRADA or AJUSTE line item of the lot, or an exit allocation of a SALIDA
TieneReferencias(L, l, f) ==
  \/ \E d \in DetallesDe(L, "ENTRADA", f) \cup DetallesDe(L, "AJUSTE", f) :
        d.idLote = l
  \/ \E s \in L.sals : s.idLote = l /\
        \E d \in DetallesDe(L, "SALIDA", f) : d.id = s.idMovimientoDetalle

\* the day the lot entered: the day of its INV-INIT movement when it has
\* one, else the day of fechaIngreso
DiaDeIngreso(L, lote) ==
  IF InvInit(L, lote.id) # {}
  THEN Ymd((CHOOSE m \in InvInit(L, lote.id) : TRUE).fecha)
  ELSE Ymd(lote.fechaIngreso)

\* C26: when no PROCESADO movement references a lot, calcularStockLote
\* returns the stored initial quantity if fechaHasta is omitted or the lot's
\* day of ingress (the day of its INV-INIT movement when it has one) is on or
\* before fechaHasta, and zero otherwise; the fallback is taken only then:
\* a lot that movements reference gets the replayed quantity.
C26_LoteVirgen ==
  ret.op = "lote" =>
    \A l \in lotes : l.id = ret.id =>
       IF TieneReferencias(Ledger, l.id, ret.fecha)
       THEN ret.out.cantidadActual
              = Max(0, Entradas(Ledger, l.id, ret.fecha)
                         - SalidasDeLote(Ledger, l.id, ret.fecha)
                         + Ajustes(Ledger, l.id, ret.fecha))
       ELSE ret.out.cantidadActual
              = IF ret.fecha = NoFecha \/ DiaDeIngreso(Ledger, l) <= Ymd(ret.fecha)
                THEN l.cantidadInicial ELSE 0

\* the lots of position i that hold a positive quantity as of f
LotesConSaldo(i, f) ==
  {l \in LotesDe(Ledger, i) : LoteCalc(Ledger, l, f).cantidadActual > 0}

\* the quantity of those lots, and their quantity times unit cost
RECURSIVE CantidadDeLotes(_, _)
CantidadDeLotes(S, f) ==
  IF S = {} THEN 0
  ELSE LET l == CHOOSE x \in S : TRUE
       IN LoteCalc(Ledger, l, f).cantidadActual + CantidadDeLotes(S \ {l}, f)

RECURSIVE ValorDeLotes(_, _)
ValorDeLotes(S, f) ==
  IF S = {} THEN 0
  ELSE LET l == CHOOSE x \in S : TRUE
       IN LoteCalc(Ledger, l, f).cantidadActual * l.costoUnitario
            + ValorDeLotes(S \ {l}, f)

\* C27: the weighted-average unit cost calcularStockInventario returns is
\* the sum of quantity times unit cost over the lots with a positive
\* quantity, divided by the sum of their quantities, and zero when that sum
\* is zero; so it is never below the lowest nor above the highest unit cost
\* of those lots, also when the position has exits recorded with lot id 0.
C27_CostoPromedio ==
  ret.op = "inventario" =>
    \E S \in {LotesConSaldo(ret.id, ret.fecha)} :
       IF S = {}
       THEN ret.out.costoNum = 0
       ELSE /\ ret.out.costoNum * CantidadDeLotes(S, ret.fecha)
                 = ValorDeLotes(S, ret.fecha) * ret.out.costoDen
            /\ \E l \in S : l.costoUnitario * ret.out.costoDen <= ret.out.costoNum
            /\ \E l \in S : l.costoUnitario * ret.out.costoDen >= ret.out.costoNum

(***************************************************************************)
(* Claims on the rows of an exit in the Kardex (SpecKardex).               *)
(***************************************************************************)
\* what the first n rows of a report moved in and out of lot l
RECURSIVE MovidoDeLote(_, _, _)
MovidoDeLote(filas, n, l) ==
  IF n = 0 THEN 0
  ELSE MovidoDeLote(filas, n - 1, l)
         + (IF filas[n].idLote # l THEN 0
            ELSE IF filas[n].tipoMovimiento = "ENTRADA" THEN filas[n].cantidad
            ELSE 0 - filas[n].cantidad)

\* the quantity of lot l in the working set T (0 when it is not in it)
CantidadTemporal(T, l) ==
  IF \E t \in T : t.idLote = l
  THEN (CHOOSE t \in T : t.idLote = l).cantidadDisponible ELSE 0

\* the rows of an exit are those of one line item that is not an entry
EsFilaDeSalida(fila) == fila.tipoMovimiento # "ENTRADA"

\* C28: under FIFO the rows of an exit are one per lot of the working set
\* touched, in the order of ingress date and then lot id, each with the
\* lot's own unit cost, the quantity taken from the lot and the balance
\* after that draw; the working-set quantity of a touched lot goes down by
\* the quantity taken and is never negative.
C28_FilasPorLote ==
  (ret.op = "kardex" /\ ret.metodo = "FIFO") =>
    \E filas \in {ret.out.movimientos} :
      /\ \A n \in 1..Len(filas) : EsFilaDeSalida(filas[n]) =>
            /\ filas[n].cantidad > 0
            /\ \E l \in lotes, t \in ret.temporales.finales :
                  /\ l.id = filas[n].idLote /\ t.idLote = l.id
                  /\ filas[n].costoUnitario = FInt(l.costoUnitario)
                  /\ filas[n].costoTotal = FInt(filas[n].cantidad * l.costoUnitario)
            /\ filas[n].cantidadSaldo
                 = Max(0, filas[n].antes.cantidad - filas[n].cantidad)
            /\ filas[n].valorTotalSaldo
                 = FMax0(FSub(filas[n].antes.valorTotal, filas[n].costoTotal))
            /\ \A k \in 1..(n - 1) :
                  filas[k].idMovimientoDetalle = filas[n].idMovimientoDetalle =>
                     \E a, b \in ret.temporales.finales :
                        /\ a.idLote = filas[k].idLote /\ b.idLote = filas[n].idLote
                        /\ \/ a.fechaIngreso < b.fechaIngreso
                           \/ a.fechaIngreso = b.fechaIngreso /\ a.idLote < b.idLote
      /\ \A d \in detalles :
            SumConsumo(SelectSeq(filas, LAMBDA f :
                         EsFilaDeSalida(f) /\ f.idMovimientoDetalle = d.id))
              <= Max(0, d.cantidad)
      /\ \A l \in lotes :
            /\ \A n \in 0..Len(filas) :
                  CantidadTemporal(ret.temporales.cargados, l.id)
                    + MovidoDeLote(filas, n, l.id) >= 0
            /\ CantidadTemporal(ret.temporales.finales, l.id)
                 = CantidadTemporal(ret.temporales.cargados, l.id)
                     + MovidoDeLote(filas, Len(filas), l.id)

\* a FIFO report with an exit served from two lots of the working set
C28_Witness ==
  /\ ret.op = "kardex" /\ ret.metodo = "FIFO"
  /\ \E n \in 1..Len(ret.out.movimientos) :
        /\ n + 1 <= Len(ret.out.movimientos)
        /\ EsFilaDeSalida(ret.out.movimientos[n])
        /\ ret.out.movimientos[n].idMovimientoDetalle
             = ret.out.movimientos[n + 1].idMovimientoDetalle
        /\ ret.out.movimientos[n].idLote # ret.out.movimientos[n + 1].idLote

\* C29: under PROMEDIO the unit cost of an exit row is the unit cost of the
\* running balance just before it, the new balance quantity is max(0,
\* running quantity - row quantity), the new balance value is max(0, running
\* value - row quantity times unit cost), and the new balance unit cost is
\* new value / new quantity (0 when the new quantity is 0); so an exit that
\* leaves a positive balance leaves the balance unit cost as it was.
C29_SalidaPromedio ==
  (ret.op = "kardex" /\ ret.metodo = "PROMEDIO") =>
    \E filas \in {ret.out.movimientos} :
      \A n \in 1..Len(filas) : EsFilaDeSalida(filas[n]) =>
         \E previo \in {IF n = 1 THEN ret.out.saldoInicial
                        ELSE SaldoDeFila(filas[n - 1])} :
            /\ filas[n].costoUnitario = previo.costoUnitario
            /\ filas[n].cantidadSaldo = Max(0, previo.cantidad - filas[n].cantidad)
            /\ filas[n].valorTotalSaldo
                 = FMax0(FSub(previo.valorTotal,
                              FMulInt(filas[n].cantidad, previo.costoUnitario)))
            /\ filas[n].costoUnitarioSaldo
                 = IF filas[n].cantidadSaldo > 0
                   THEN FDivInt(filas[n].valorTotalSaldo, filas[n].cantidadSaldo)
                   ELSE FInt(0)
            /\ filas[n].cantidadSaldo > 0
                 => filas[n].costoUnitarioSaldo = previo.costoUnitario

\* a PROMEDIO report with an exit that takes part of a balance whose unit
\* cost is not the cost of a single lot
C29_Witness ==
  /\ ret.op = "kardex" /\ ret.metodo = "PROMEDIO"
  /\ \E n \in 1..Len(ret.out.movimientos) :
        /\ EsFilaDeSalida(ret.out.movimientos[n])
        /\ ret.out.movimientos[n].cantidad > 0
        /\ ret.out.movimientos[n].cantidadSaldo > 0
        /\ ret.out.movimientos[n].costoUnitarioSaldo.d > 1

\* the PROCESADO line items of position i dated inside the window
DetallesDeVentana(i, fechaDesde, fechaHasta) ==
  {d \in detalles : d.idInventario = i /\
     \E m \in movimientos : /\ m.id = d.idMovimiento
                            /\ m.estado = "PROCESADO"
                            /\ m.fecha >= fechaDesde /\ m.fecha <= fechaHasta}

\* the rows of the report that belong to the line item d
FilasDeDetalle(filas, d) ==
  SelectSeq(filas, LAMBDA f : f.idMovimientoDetalle = d.id)

SoloCorregido(antes, ahora, campos) ==
  /\ DOMAIN ahora = DOMAIN antes
  /\ \A c \in DOMAIN antes \ campos : ahora[c] = antes[c]

\* the line items of the INV-INIT movements
DetallesIniciales ==
  {d \in detalles : \E m \in movimientos :
      m.id = d.idMovimiento /\ m.numeroDocumento = "INV-INIT"}

\* C31: the ledger only grows. In every step of the movement and inventory
\* services every persisted movement is still persisted as it was, and every
\* persisted line item and lot is still persisted as it was or, for the
\* INV-INIT line item and its lot, with a corrected quantity or cost.
C31_LedgerSoloCrece ==
  [][/\ movimientos \subseteq movimientos'
     /\ \A d \in detalles :
           \/ d \in detalles'
           \/ /\ d \in DetallesIniciales
              /\ \E e \in detalles' : e.id = d.id /\ SoloCorregido(d, e, {"cantidad"})
     /\ \A l \in lotes :
           \/ l \in lotes'
           \/ /\ \E d \in DetallesIniciales : d.idLote = l.id
              /\ \E k \in lotes' :
                    k.id = l.id /\ SoloCorregido(l, k, {"cantidadInicial", "costoUnitario"})]_vars

(***************************************************************************)
(* The stock cache against the ledger (SpecStock).                         *)
(***************************************************************************)
\* C34: with no ledger mutation in between, a calcularStockInventario
\* without date answers what the ledger gives, served from the cache or not:
\* the same quantity, the same average cost and the same lots with stock;
\* and a calcularStockLote without date answers what the ledger gives
\* whatever reads, dated or not, came before.
C34_CacheComoLedger ==
  /\ (ret.op = "inventario" /\ ret.fecha = NoFecha) =>
        \E orden \in OrdenesFind(Ledger, ret.id) :
           ret.out = InventarioCalc(Ledger, {}, ret.id, NoFecha, orden)
  /\ (ret.op = "lote" /\ ret.fecha = NoFecha) =>
        \A l \in lotes : l.id = ret.id => ret.out = LoteCalc(Ledger, l, NoFecha)

(***************************************************************************)
(* Movements that are not PROCESADO (SpecKardex).                          *)
(***************************************************************************)
NoProcesados(L) == {m \in L.movs : m.estado # "PROCESADO"}

\* the ledger without the movements M, their line items and allocations
SinMovimientos(L, M) ==
  LET ids == {m.id : m \in M}
      dets == {d \in L.dets : d.idMovimiento \in ids}
  IN [L EXCEPT !.movs = L.movs \ M,
               !.dets = L.dets \ dets,
               !.sals = {s \in L.sals : ~\E d \in dets : d.id = s.idMovimientoDetalle}]

\* the ledger with the quantities of the movements M set to q
ConCantidad(L, M, q) ==
  LET ids == {m.id : m \in M}
      dets == {d \in L.dets : d.idMovimiento \in ids}
      delMov(s) == \E d \in dets : d.id = s.idMovimientoDetalle
  IN [L EXCEPT !.dets = {IF d \in dets THEN [d EXCEPT !.cantidad = q] ELSE d :
                           d \in L.dets},
               !.sals = {IF delMov(s) THEN [s EXCEPT !.cantidad = q] ELSE s :
                           s \in L.sals}]

\* the ledger with one more movement of one line item on position i
ConMovimiento(L, tipo, estado, doc, fecha, i, q, idLote) ==
  LET id == Len(Plantillas) + 1
  IN [L EXCEPT !.movs = @ \cup {[id |-> id, tipo |-> tipo, fecha |-> fecha,
                                 estado |-> estado, numeroDocumento |-> doc,
                                 idComprobante |-> 0]},
               !.dets = @ \cup {[id |-> id, idMovimiento |-> id, idInventario |-> i,
                                 cantidad |-> q,
                                 idLote |-> IF tipo = "SALIDA" THEN 0 ELSE idLote]},
               !.sals = @ \cup (IF tipo = "SALIDA"
                                THEN {[idMovimientoDetalle |-> id, idLote |-> idLote,
                                       cantidad |-> q, costoUnitarioDeLote |-> 5]}
                                ELSE {})]

\* ledgers that differ from L in movements that are not PROCESADO only
VariantesNoProcesadas(L, i) ==
  {SinMovimientos(L, NoProcesados(L))}
  \cup {ConCantidad(L, NoProcesados(L), q) : q \in 1..MaxCant}
  \cup {ConMovimiento(L, x[1], x[2], x[3], x[4], i, x[5], x[6]) :
          x \in {"ENTRADA", "SALIDA", "AJUSTE"} \X (Estados \ {"PROCESADO"})
                \X {"DOC", "INV-INIT"} \X Fechas \X {1, MaxCant} \X {0, 1, 2}}

\* the stock and Kardex results of position i on the ledger L
ResultadosDe(L, i, fechaDesde, fechaHasta, metodoValoracion, f) ==
  LET orden == CHOOSE o \in OrdenesFind(L, i) : TRUE
      stock == InventarioCalc(L, {}, i, f, orden)
  IN [lotes |-> {LoteCalc(L, l, f) : l \in L.lotes},
      inventario |-> stock,
      fifo |-> obtenerLotesDisponiblesFIFO(stock),
      kardex |-> generarKardex(L, comprobantes, i, fechaDesde, fechaHasta,
                               metodoValoracion)]

\* C32: only PROCESADO movements count. The stock of every lot, the stock of
\* the position, its available FIFO lots (as of the end date and without
\* date) and the Kardex of the window are the same on every ledger that
\* differs from the present one only in movements that are not PROCESADO:
\* some removed, some added, or their quantities changed.
C32_SoloProcesados ==
  ret.op = "kardex" =>
    \A f \in {ret.hasta, NoFecha} :
      \A V \in VariantesNoProcesadas(Ledger, ret.id) :
         ResultadosDe(V, ret.id, ret.desde, ret.hasta, ret.metodo, f)
           = ResultadosDe(Ledger, ret.id, ret.desde, ret.hasta, ret.metodo, f)

\* a Kardex over a window that holds a PENDIENTE entry of a lot of the
\* position next to PROCESADO rows
C32_Witness ==
  /\ ret.op = "kardex"
  /\ Len(ret.out.movimientos) > 0
  /\ \E m \in NoProcesados(Ledger) :
        /\ ret.desde <= m.fecha /\ m.fecha <= ret.hasta
        /\ \E d \in detalles : d.idMovimiento = m.id /\ d.idInventario = ret.id
                               /\ d.idLote # 0

(***************************************************************************)
(* Concurrent registrations on one position (Spec).                        *)
(***************************************************************************)
\* what a lot has received: its initial quantity or the quantity of its
\* entries, and its adjustments
RecibidoPorLote(L, l) ==
  Max(l.cantidadInicial, Entradas(L, l.id, NoFecha)) + Ajustes(L, l.id, NoFecha)

\* C33: no lot is oversold under concurrency: once every registration in
\* flight has committed or rolled back, the exit allocations recorded
\* against a lot add up to no more than the lot received.
C33_SinSobreventa ==
  (\A p \in DOMAIN regs : regs[p].pc = "idle") =>
     \A l \in lotes : SalidasDeLote(Ledger, l.id, NoFecha) <= RecibidoPorLote(Ledger, l)

(***************************************************************************)
(* The Kardex against the stock computation (SpecKardex).                  *)
(***************************************************************************)
\* C35: the two engines agree: under both valuation methods the final
\* balance quantity of generarKardex over [fechaDesde, fechaHasta] is the
\* quantity calcularStockInventario gives for the position as of fechaHasta.
C35_MotoresDeAcuerdo ==
  ret.op = "kardex" =>
    \A orden \in OrdenesFind(Ledger, ret.id) :
       ret.out.stockFinal
         = InventarioCalc(Ledger, {}, ret.id, ret.hasta, orden).stockActual

(***************************************************************************)
(* Kardex windows that start at any time of day (SpecVentana).             *)
(***************************************************************************)
\* the instants a window may start or end at: those of the ledger and the
\* rest of the last day
FechasVentana == 0..(FinDelDia(Ymd(MaxFecha)))

NextVentana ==
  \E i \in Posiciones, fechaDesde \in FechasVentana, fechaHasta \in FechasVentana :
     \E metodo \in {"PROMEDIO", "FIFO"} :
        GenerarKardex(i, fechaDesde, fechaHasta, metodo)

SpecVentana == InitStock /\ [][NextVentana]_vars

\* the line item is part of the stock the opening balance is computed from
EnSaldoInicial(L, d, fechaDesde) ==
  \E tipo \in {"ENTRADA", "SALIDA", "AJUSTE"} :
     d \in DetallesDe(L, tipo, FinDiaAnterior(fechaDesde))

\* the number of rows obtenerMovimientosInventario returns for the line item
VecesEnVentana(L, comps, d, fechaDesde, fechaHasta) ==
  LET filas == obtenerMovimientosInventario(L, comps, d.idInventario,
                                            fechaDesde, fechaHasta)
  IN Cardinality({k \in 1..Len(filas) : filas[k].idmovimientodetalle = d.id})

\* C36: every PROCESADO line item of the position dated on or before
\* fechaHasta is accounted for exactly once by generarKardex: in the opening
\* balance or as one replayed row of the window, never in neither and never
\* in both, whatever the time of day of fechaDesde.
C36_UnaSolaVez ==
  ret.op = "kardex" =>
    \A d \in detalles : \A m \in movimientos :
      (/\ m.id = d.idMovimiento /\ m.estado = "PROCESADO"
       /\ d.idInventario = ret.id /\ m.fecha <= ret.hasta) =>
         (IF EnSaldoInicial(Ledger, d, ret.desde) THEN 1 ELSE 0)
           + VecesEnVentana(Ledger, comprobantes, d, ret.desde, ret.hasta) = 1

\* the line items of the window whose movement is an exit
SalidasDeVentana(i, fechaDesde, fechaHasta) ==
  {d \in DetallesDeVentana(i, fechaDesde, fechaHasta) :
     \E m \in movimientos : m.id = d.idMovimiento /\ m.tipo = "SALIDA"}

\* C37: under FIFO no exit quantity is dropped from the Kardex: the rows of
\* every exit line item of the window add up to the line item's quantity,
\* and across them the running balance goes down by that quantity, floored
\* at zero.
C37_SinSalidaPerdida ==
  (ret.op = "kardex" /\ ret.metodo = "FIFO") =>
    \A d \in SalidasDeVentana(ret.id, ret.desde, ret.hasta) :
      \E filas \in {FilasDeDetalle(ret.out.movimientos, d)} :
        /\ SumConsumo(filas) = d.cantidad
        /\ Len(filas) > 0
        /\ filas[Len(filas)].cantidadSaldo
             = Max(0, filas[1].antes.cantidad - d.cantidad)

(***************************************************************************)
(* Registrations followed by a FIFO Kardex (SpecLibro): one caller         *)
(* registers purchases and sales, and generates the Kardex over whole days *)
(* when its registration has returned.                                     *)
(***************************************************************************)
\* the last day a movement of a registered document may fall on
UltimoDia == Ymd(MaxFecha)

KardexDelLibro ==
  \E i \in InvIds, desde \in 0..UltimoDia, hasta \in 0..UltimoDia :
     /\ regs[1].pc = "idle"
     /\ GenerarKardex(i, InicioDelDia(desde), FinDelDia(hasta), "FIFO")

NextLibro == Registrar(1) \/ KardexDelLibro

\* the seed lot of position 1 entered on the first or on the last day, so
\* that a purchase may be dated before it
InitLibro ==
  /\ \E f \in {0, MaxFecha} :
        /\ lotes = {[l EXCEPT !.fechaIngreso = f] : l \in LotesSemilla}
        /\ movimientos = {[m EXCEPT !.fecha = f] : m \in MovimientosSemilla}
  /\ detalles = DetallesSemilla
  /\ salidas = {}
  /\ comprobantes = {}
  /\ correlativos \in CorrelativosIniciales
  /\ loteCache = {}
  /\ invCache = {}
  /\ regs = [p \in {1} |-> IdleReg]
  /\ ret = [op |-> "init"]
  /\ hist = HistInit
  /\ lotesDisponiblesTemporales = {}
  /\ gens = <<>>

SpecLibro == InitLibro /\ [][NextLibro]_vars

\* lot, quantity and unit cost of the rows of a set of exit allocations
AsignadoEnLedger(S) ==
  {[idLote |-> s.idLote, cantidad |-> s.cantidad,
    costoUnitario |-> FInt(s.costoUnitarioDeLote)] : s \in S}

\* lot, quantity and unit cost of rows of the report
AsignadoEnKardex(filas) ==
  {[idLote |-> filas[n].idLote, cantidad |-> filas[n].cantidad,
    costoUnitario |-> filas[n].costoUnitario] : n \in 1..Len(filas)}

\* C38: the FIFO Kardex agrees with what was recorded: for every committed
\* SALIDA line item of the window the per-lot rows of generarKardex name the
\* lots, quantities and unit costs of the exit allocations persisted for it,
\* one row per allocation, in whatever order purchases and sales were
\* registered.
C38_KardexComoSalidas ==
  (ret.op = "kardex" /\ ret.metodo = "FIFO") =>
    \A d \in SalidasDeVentana(ret.id, ret.desde, ret.hasta) :
      \E filas \in {FilasDeDetalle(ret.out.movimientos, d)} :
        /\ AsignadoEnKardex(filas) = AsignadoEnLedger(SalidasDeDetalle(d.id))
        /\ Len(filas) = Cardinality(SalidasDeDetalle(d.id))

(***************************************************************************)
(* The validation of the lots of a purchase (Spec).                        *)
(***************************************************************************)
\* C39: the validation never rejects a correct purchase: once
\* procesarLotesComprobante has created the lots of every line of a
\* purchase, validarLotesCompra on the same lines is true, with several
\* lines on one position at different prices and with other purchases
\* registering on the same position at the same time.
C39_ValidacionAcepta ==
  \A p \in DOMAIN regs :
     regs[p].pc = "validar" => validarLotesCompra(Ledger, regs[p].doc.lineas)

(***************************************************************************)
(* procesarMovimiento on a movement that is already PROCESADO (SpecRepo).  *)
(***************************************************************************)
\* the stock of position i computed from the ledger L
StockDePosicion(L, i) ==
  LET orden == CHOOSE o \in OrdenesFind(L, i) : TRUE
  IN InventarioCalc(L, {}, i, NoFecha, orden).stockActual

\* C40: procesarMovimiento is idempotent with respect to stock: a call on a
\* movement that is already PROCESADO (created so, or processed by an
\* earlier call) that returns normally creates no lot and leaves the stock
\* of every position as it was.
C40_ProcesarIdempotente ==
  [][(/\ hist'.iniciados = hist.iniciados + 1
      /\ ret'.op = "procesarMovimiento" /\ ret'.ok
      /\ \E m \in movimientos : m.id = ret'.id /\ m.estado = "PROCESADO")
       => /\ lotes' = lotes
          /\ \A i \in InvIds :
                StockDePosicion([lotes |-> lotes', movs |-> movimientos',
                                 dets |-> detalles', sals |-> salidas'], i)
                  = StockDePosicion(Ledger, i)]_vars

=============================================================================
